---- MODULE Spec2Model ----
(***************************************************************************)
(* The team aggregate store (console-team/src/state.rs) and the tool       *)
(* handlers that drive it (core/src/team/handler.rs).                      *)
(*                                                                         *)
(* Option<T> is a sequence of length 0 (None) or 1 (Some).  Strings of the *)
(* program are TLA+ strings, except team names, which are sequences of     *)
(* one-character strings so that sanitize_team_name can map them character *)
(* by character.  Wall-clock fields (created_at, updated_at) are left out: *)
(* no operation reads them.                                                *)
(***************************************************************************)
EXTENDS Integers, Sequences, FiniteSets, TLC

VARIABLES
    mem,        \* TeamState.data : Option<TeamStateData>
    disk,       \* persist_dir : file name -> TeamStateData (the *.json files)
    last,       \* the call that returned in the last step: its name, what it
                \* returned, the task, agent or aggregate it was aimed at as that was
                \* before the call, and the argument that says what to change it to
    ioFails,    \* number of file-system failures injected so far
    running,    \* agent backend: thread ids of the agents that are running
    spawned,    \* agent backend: number of threads ever spawned (fresh ids)
    asked,      \* agent backend: thread ids whose shutdown has been requested
    panes,      \* pane backend: Some(titles of the open panes), None outside tmux
    calls,      \* tool calls in progress: session -> frame of the handler
    submissions \* PlanApprovalState.submissions : Vec<PlanSubmission>

backend == <<running, spawned, asked, panes, calls, submissions>>

vars == <<mem, disk, last, ioFails, running, spawned, asked, panes, calls, submissions>>

----------------------------------------------------------------------------
(* Bounds *)

MaxAgents == 2          \* agents of one aggregate, the lead included
MaxTasks == 3           \* tasks on the board (task board specification)
MaxStoreTasks == 2      \* tasks on the board (store specification)
MaxClaimTasks == 1      \* tasks on the board (claim specification)
MaxMessages == 1
MaxIoFailures == 1      \* file-system failures in one behaviour
MaxSpawns == 2          \* threads the agent backend is asked to spawn in one behaviour

----------------------------------------------------------------------------
(* Values *)

None == << >>
Some(x) == <<x>>

Pending == "Pending"
InProgress == "InProgress"
Completed == "Completed"
Blocked == "Blocked"
TaskStatus == {Pending, InProgress, Completed, Blocked}

Lead == "Lead"
Teammate == "Teammate"
TeamAgentRole == {Lead, Teammate}

Active == "Active"
Idle == "Idle"
Shutdown == "Shutdown"
TeamAgentStatus == {Active, Idle, Shutdown}

(* TeamError: the variant and the message (as the list of its parts). *)
Ok(v) == [kind |-> "Ok", msg |-> << >>, val |-> v]
InvalidOperation(m) == [kind |-> "InvalidOperation", msg |-> m, val |-> None]
IoError == [kind |-> "Io", msg |-> << >>, val |-> None]

(* a slip: the absent team is reported with the words of an absent task *)
NoTeam_TaskNotFound == InvalidOperation(<<"Task not found", "">>)

NoTeam == InvalidOperation(<<"No team has been created yet">>)

----------------------------------------------------------------------------
(* Helpers on sequences *)

Range(s) == {s[i] : i \in DOMAIN s}

Exists(s, P(_)) == \E i \in DOMAIN s : P(s[i])

(* Iterator::find / position: index of the first element satisfying P, 0 if none *)
FirstIndex(s, P(_)) ==
    IF \E i \in DOMAIN s : P(s[i])
    THEN CHOOSE i \in DOMAIN s : P(s[i]) /\ \A j \in 1..(i - 1) : ~P(s[j])
    ELSE 0

(* generate_id: the n-th identifier with this prefix issued for one aggregate *)
generate_id(prefix, n) == prefix \o "-" \o ToString(n)

----------------------------------------------------------------------------
(* sanitize_team_name *)

AsciiAlnum == {"p", "Q", "7"}

(* a slip: '.' is kept as well *)
SanitizeChar_KeepDot(c) ==
    IF c \in AsciiAlnum \/ c = "-" \/ c = "_" \/ c = "." THEN c ELSE "_"

(* a slip: '_' is replaced as well, by '-' *)
SanitizeChar_NoUnderscore(c) ==
    IF c \in AsciiAlnum \/ c = "-" THEN c ELSE IF c = "_" THEN "-" ELSE "_"

SanitizeChar(c) == IF c \in AsciiAlnum \/ c = "-" \/ c = "_" THEN c ELSE "_"

sanitize_team_name(name) ==
    IF name = << >>
    THEN InvalidOperation(<<"Team name must not be empty">>)
    ELSE IF name = <<".">> \/ name = <<".", ".">>
    THEN InvalidOperation(<<"Team name is not allowed">>)
    ELSE Ok([i \in DOMAIN name |-> SanitizeChar(name[i])])

----------------------------------------------------------------------------
(* The persistence directory *)

NoFiles == [f \in {} |-> None]

WriteFile(d, f, data) == [g \in DOMAIN d \cup {f} |-> IF g = f THEN data ELSE d[g]]

RemoveFile(d, f) == [g \in DOMAIN d \ {f} |-> d[g]]

(* a slip: the snapshot written leaves the messages out *)
persist_inner_NoMessages(d, state, ioOk) ==
    LET safe == sanitize_team_name(state.team) IN
    IF safe.kind # "Ok" THEN [disk |-> d, res |-> safe]
    ELSE IF ~ioOk THEN [disk |-> d, res |-> IoError]
    ELSE [disk |-> WriteFile(d, safe.val, [state EXCEPT !.messages = << >>]),
          res |-> Ok(None)]

(* persist_inner: the whole aggregate replaces the file <sanitized name>.json;   *)
(* ioOk = FALSE is a failure of create_dir_all or write, which leaves the file   *)
(* as it was.                                                                    *)
persist_inner(d, state, ioOk) ==
    LET safe == sanitize_team_name(state.team) IN
    IF safe.kind # "Ok" THEN [disk |-> d, res |-> safe]
    ELSE IF ~ioOk THEN [disk |-> d, res |-> IoError]
    ELSE [disk |-> WriteFile(d, safe.val, state), res |-> Ok(None)]

(* a slip: the directory is never scanned *)
try_load_from_disk_Never(m, d) == {m}

(* try_load_from_disk: the aggregates the store may hold after the call.  The    *)
(* order of read_dir is the file system's, so any file may be the first found.   *)
try_load_from_disk(m, d) ==
    IF m # None THEN {m}
    ELSE IF DOMAIN d = {} THEN {None}
    ELSE {Some(d[f]) : f \in DOMAIN d}

----------------------------------------------------------------------------
(* TeamState operations.  Each takes the aggregate m held after the call's own  *)
(* try_load_from_disk, the directory d and the arguments, and gives the         *)
(* aggregate and directory it leaves and the value it returns.                  *)

(* a slip: a refused call forgets the aggregate in memory *)
Fail_Forget(m, d, err) == [mem |-> None, disk |-> d, res |-> err]

Fail(m, d, err) == [mem |-> m, disk |-> d, res |-> err]

(* a slip: a failed write drops the aggregate from memory *)
Finish_Drop(state, d, val, ioOk) ==
    LET p == persist_inner(d, state, ioOk) IN
    [mem |-> IF p.res.kind = "Ok" THEN Some(state) ELSE None, disk |-> p.disk,
     res |-> IF p.res.kind = "Ok" THEN Ok(val) ELSE p.res]

(* The tail of every mutating operation: the aggregate is already changed in    *)
(* memory when persist_inner runs, and `?` returns its error.                   *)
Finish(state, d, val, ioOk) ==
    LET p == persist_inner(d, state, ioOk) IN
    [mem |-> Some(state), disk |-> p.disk,
     res |-> IF p.res.kind = "Ok" THEN Ok(val) ELSE p.res]

(* a slip: the lead is given the role of a teammate *)
new_lead_Teammate(lead_id, lead_name) ==
    [id |-> lead_id, name |-> lead_name, role |-> Teammate,
     status |-> Active, model |-> None, thread_id |-> None]

(* create_team: the lead agent of a new team *)
new_lead(lead_id, lead_name) ==
    [id |-> lead_id, name |-> lead_name, role |-> Lead,
     status |-> Active, model |-> None, thread_id |-> None]

(* a slip: the aggregate in memory is not looked at, and is replaced *)
create_team_Replace(m, d, team_name, lead_name, ioOk) ==
    LET safe == sanitize_team_name(team_name) IN
    IF safe.kind # "Ok" THEN Fail(m, d, safe)
    ELSE
        LET lead_id == generate_id("agent", 1)
            state == [team |-> safe.val, lead_id |-> lead_id,
                      agents |-> <<new_lead(lead_id, lead_name)>>,
                      tasks |-> << >>, messages |-> << >>]
            p == persist_inner(d, state, ioOk)
        IN  IF p.res.kind # "Ok" THEN Fail(m, p.disk, p.res)
            ELSE [mem |-> Some(state), disk |-> p.disk, res |-> Ok(state)]

create_team(m, d, team_name, lead_name, ioOk) ==
    LET safe == sanitize_team_name(team_name) IN
    IF safe.kind # "Ok" THEN Fail(m, d, safe)
    ELSE IF m # None THEN Fail(m, d, InvalidOperation(<<"Team already exists">>))
    ELSE
        LET lead_id == generate_id("agent", 1)
            state == [team |-> safe.val, lead_id |-> lead_id,
                      agents |-> <<new_lead(lead_id, lead_name)>>,
                      tasks |-> << >>, messages |-> << >>]
            p == persist_inner(d, state, ioOk)
        IN  IF p.res.kind # "Ok" THEN Fail(m, p.disk, p.res)
            ELSE [mem |-> Some(state), disk |-> p.disk, res |-> Ok(state)]

get_team(m) == IF m = None THEN NoTeam ELSE Ok(m[1])

add_agent(m, d, name, role, thread_id, model, ioOk) ==
    IF m = None THEN Fail(m, d, NoTeam)
    ELSE
        LET state == m[1]
            agent == [id |-> generate_id("agent", Len(state.agents) + 1), name |-> name,
                      role |-> role, status |-> Active, model |-> model,
                      thread_id |-> thread_id]
        IN  Finish([state EXCEPT !.agents = Append(@, agent)], d, agent, ioOk)

bind_lead_thread(m, d, thread_id, ioOk) ==
    IF m = None THEN Fail(m, d, NoTeam)
    ELSE
        LET state == m[1]
            i == FirstIndex(state.agents, LAMBDA a : a.id = state.lead_id)
        IN  IF i = 0 THEN Fail(m, d, InvalidOperation(<<"Lead agent not found">>))
            ELSE LET state2 == [state EXCEPT !.agents[i].thread_id = Some(thread_id)]
                 IN  Finish(state2, d, state2.agents[i], ioOk)

IsCompletedId(tasks, dep_id) == Exists(tasks, LAMBDA t : t.id = dep_id /\ t.status = Completed)

(* a slip: any() where the code has all() *)
initial_status_AnyDep(depends_on, tasks) ==
    IF depends_on = << >> \/ \E k \in DOMAIN depends_on : IsCompletedId(tasks, depends_on[k])
    THEN Pending ELSE Blocked

(* add_task: the initial status of a task with these (existing) dependencies *)
initial_status(depends_on, tasks) ==
    LET all_deps_complete == \A k \in DOMAIN depends_on : IsCompletedId(tasks, depends_on[k])
    IN  IF depends_on = << >> \/ all_deps_complete THEN Pending ELSE Blocked

(* a slip: only the first dependency is looked up *)
missing_dependency_FirstOnly(depends_on, tasks) ==
    IF depends_on # << >> /\ ~Exists(tasks, LAMBDA t : t.id = depends_on[1]) THEN 1 ELSE 0

(* add_task: the place in depends_on of the first id that no task has, 0 if     *)
(* every id is a task's                                                         *)
missing_dependency(depends_on, tasks) ==
    FirstIndex(depends_on, LAMBDA dep_id : ~Exists(tasks, LAMBDA t : t.id = dep_id))

add_task(m, d, title, depends_on, ioOk) ==
    IF m = None THEN Fail(m, d, NoTeam)
    ELSE
        LET state == m[1]
            missing == missing_dependency(depends_on, state.tasks)
        IN  IF missing # 0
            THEN Fail(m, d, InvalidOperation(<<"Dependency task not found", depends_on[missing]>>))
            ELSE
                LET task == [id |-> generate_id("task", Len(state.tasks) + 1),
                             title |-> title,
                             status |-> initial_status(depends_on, state.tasks),
                             assignee_id |-> None, result |-> None,
                             depends_on |-> depends_on]
                IN  Finish([state EXCEPT !.tasks = Append(@, task)], d, task, ioOk)

(* slips: a status check of claim_task is missing, or is too strict *)
claim_refusal_NoBlockedCheck(task) ==
    IF task.status = Completed
    THEN Some(InvalidOperation(<<"Cannot claim a completed task">>))
    ELSE None

claim_refusal_NoCompletedCheck(task) ==
    IF task.status = Blocked
    THEN Some(InvalidOperation(<<"Cannot claim a blocked task">>))
    ELSE None

claim_refusal_PendingOnly(task) ==
    IF task.status = Blocked
    THEN Some(InvalidOperation(<<"Cannot claim a blocked task">>))
    ELSE IF task.status # Pending
    THEN Some(InvalidOperation(<<"Cannot claim a completed task">>))
    ELSE None

(* claim_task: the error for a task that may not be claimed, None if it may *)
claim_refusal(task) ==
    IF task.status = Blocked
    THEN Some(InvalidOperation(<<"Cannot claim a blocked task">>))
    ELSE IF task.status = Completed
    THEN Some(InvalidOperation(<<"Cannot claim a completed task">>))
    ELSE None

(* a slip: the assignee is matched against the agents' ids alone *)
is_team_member_IdOnly(agents, assignee_id) ==
    Exists(agents, LAMBDA a : a.id = assignee_id)

(* claim_task: the assignee is a team member, matched by id or by name *)
is_team_member(agents, assignee_id) ==
    Exists(agents, LAMBDA a : a.id = assignee_id \/ a.name = assignee_id)

claim_task(m, d, task_id, assignee_id, ioOk) ==
    IF m = None THEN Fail(m, d, NoTeam)
    ELSE
        LET state == m[1]
            i == FirstIndex(state.tasks, LAMBDA t : t.id = task_id)
        IN  IF ~is_team_member(state.agents, assignee_id)
            THEN Fail(m, d, InvalidOperation(<<"Assignee is not a team member", assignee_id>>))
            ELSE IF i = 0
            THEN Fail(m, d, InvalidOperation(<<"Task not found", task_id>>))
            ELSE IF claim_refusal(state.tasks[i]) # None
            THEN Fail(m, d, claim_refusal(state.tasks[i])[1])
            ELSE
                LET state2 == [state EXCEPT !.tasks[i].status = InProgress,
                                            !.tasks[i].assignee_id = Some(assignee_id)]
                IN  Finish(state2, d, state2.tasks[i], ioOk)

(* a slip: any() where the code has all() *)
Unblock_AnyDep(tasks, completed_ids) ==
    [k \in DOMAIN tasks |->
        IF /\ tasks[k].status = Blocked
           /\ \E j \in DOMAIN tasks[k].depends_on : tasks[k].depends_on[j] \in completed_ids
        THEN [tasks[k] EXCEPT !.status = Pending]
        ELSE tasks[k]]

(* a slip: no task is ever promoted *)
Unblock_Never(tasks, completed_ids) == tasks

(* The auto-unblock loop of complete_task over the tasks, given the ids that are *)
(* Completed once the task itself has been marked.                               *)
Unblock(tasks, completed_ids) ==
    [k \in DOMAIN tasks |->
        IF /\ tasks[k].status = Blocked
           /\ tasks[k].depends_on # << >>
           /\ \A j \in DOMAIN tasks[k].depends_on : tasks[k].depends_on[j] \in completed_ids
        THEN [tasks[k] EXCEPT !.status = Pending]
        ELSE tasks[k]]

(* a slip: a Blocked task is turned down, as claim_task does *)
complete_task_NotBlocked(m, d, task_id, ioOk) ==
    IF m = None THEN Fail(m, d, NoTeam)
    ELSE
        LET state == m[1]
            i == FirstIndex(state.tasks, LAMBDA t : t.id = task_id)
        IN  IF i = 0
            THEN Fail(m, d, InvalidOperation(<<"Task not found", task_id>>))
            ELSE IF state.tasks[i].status = Blocked
            THEN Fail(m, d, InvalidOperation(<<"Cannot complete a blocked task">>))
            ELSE
                LET marked == [state.tasks EXCEPT ![i].status = Completed]
                    completed_ids == {marked[k].id : k \in {k \in DOMAIN marked :
                                                         marked[k].status = Completed}}
                IN  Finish([state EXCEPT !.tasks = Unblock(marked, completed_ids)],
                           d, marked[i], ioOk)

complete_task(m, d, task_id, ioOk) ==
    IF m = None THEN Fail(m, d, NoTeam)
    ELSE
        LET state == m[1]
            i == FirstIndex(state.tasks, LAMBDA t : t.id = task_id)
        IN  IF i = 0
            THEN Fail(m, d, InvalidOperation(<<"Task not found", task_id>>))
            ELSE
                LET marked == [state.tasks EXCEPT ![i].status = Completed]
                    result == marked[i]
                    completed_ids == {marked[k].id : k \in {k \in DOMAIN marked :
                                                         marked[k].status = Completed}}
                IN  Finish([state EXCEPT !.tasks = Unblock(marked, completed_ids)],
                           d, result, ioOk)

list_tasks(m) == IF m = None THEN NoTeam ELSE Ok(m[1].tasks)

(* a slip: the oldest n messages are returned *)
list_messages_Oldest(m, limit) ==
    IF m = None THEN NoTeam
    ELSE LET msgs == m[1].messages IN
         IF limit = None THEN Ok(msgs)
         ELSE Ok(SubSeq(msgs, 1, IF limit[1] > Len(msgs) THEN Len(msgs) ELSE limit[1]))

list_messages(m, limit) ==
    IF m = None THEN NoTeam
    ELSE LET msgs == m[1].messages IN
         IF limit = None THEN Ok(msgs)
         ELSE LET n == limit[1]
                  start == IF n > Len(msgs) THEN 0 ELSE Len(msgs) - n
              IN  Ok(SubSeq(msgs, start + 1, Len(msgs)))

send_message(m, d, from, to, body, ioOk) ==
    IF m = None THEN Fail(m, d, NoTeam)
    ELSE
        LET state == m[1]
            msg == [id |-> generate_id("msg", Len(state.messages) + 1),
                    from |-> from, to |-> to, body |-> body]
        IN  Finish([state EXCEPT !.messages = Append(@, msg)], d, msg, ioOk)

update_agent_status(m, d, agent_id, status, ioOk) ==
    IF m = None THEN Fail(m, d, NoTeam)
    ELSE
        LET state == m[1]
            i == FirstIndex(state.agents, LAMBDA a : a.id = agent_id \/ a.name = agent_id)
        IN  IF i = 0 THEN Fail(m, d, InvalidOperation(<<"Agent not found", agent_id>>))
            ELSE LET state2 == [state EXCEPT !.agents[i].status = status]
                 IN  Finish(state2, d, state2.agents[i], ioOk)

find_agent(m, name_or_id) ==
    IF m = None THEN NoTeam
    ELSE
        LET i == FirstIndex(m[1].agents, LAMBDA a : a.id = name_or_id \/ a.name = name_or_id)
        IN  IF i = 0 THEN InvalidOperation(<<"Agent not found", name_or_id>>)
            ELSE Ok(m[1].agents[i])

(* cleanup: ioOk = FALSE is a failure of remove_file on a file that exists *)
cleanup(m, d, ioOk) ==
    IF m = None THEN [mem |-> None, disk |-> d, res |-> Ok(None)]
    ELSE
        LET safe == sanitize_team_name(m[1].team) IN
        IF safe.kind # "Ok" THEN Fail(m, d, safe)
        ELSE IF safe.val \in DOMAIN d
        THEN IF ioOk THEN [mem |-> None, disk |-> RemoveFile(d, safe.val), res |-> Ok(None)]
             ELSE Fail(m, d, IoError)
        ELSE [mem |-> None, disk |-> d, res |-> Ok(None)]

(* The names assert_cleanup_allowed puts in its message, in the agents' order *)
RECURSIVE ActiveTeammates(_)
ActiveTeammates(agents) ==
    IF agents = << >> THEN << >>
    ELSE (IF Head(agents).role = Teammate /\ Head(agents).status # Shutdown
          THEN <<Head(agents).name>> ELSE << >>) \o ActiveTeammates(Tail(agents))

(* a slip: the message names only the first teammate that is not Shutdown *)
assert_cleanup_allowed_FirstOnly(m) ==
    IF m = None THEN NoTeam
    ELSE
        LET active_teammates == ActiveTeammates(m[1].agents) IN
        IF active_teammates = << >> THEN Ok(None)
        ELSE InvalidOperation(<<"Cannot cleanup team while teammates are active",
                                Head(active_teammates)>>)

assert_cleanup_allowed(m) ==
    IF m = None THEN NoTeam
    ELSE
        LET active_teammates == ActiveTeammates(m[1].agents) IN
        IF active_teammates = << >> THEN Ok(None)
        ELSE InvalidOperation(<<"Cannot cleanup team while teammates are active">>
                                  \o active_teammates)

(* a slip: the search for leads stops at the first one *)
leads_First(agents) ==
    LET all == {i \in DOMAIN agents : agents[i].role = Lead}
    IN  {i \in all : \A j \in all : i <= j}

(* validate_invariants: the places of the agents whose role is Lead *)
leads(agents) == {i \in DOMAIN agents : agents[i].role = Lead}

(* validate_invariants: the first (task, dependency) pair, in the order of the  *)
(* two loops, whose dependency is the id of no task; << >> if there is none     *)
unknown_dep(tasks) ==
    LET bad == {p \in (DOMAIN tasks) \X (1..MaxTasks) :
                   /\ p[2] \in DOMAIN tasks[p[1]].depends_on
                   /\ ~Exists(tasks, LAMBDA t : t.id = tasks[p[1]].depends_on[p[2]])}
    IN  IF bad = {} THEN << >>
        ELSE CHOOSE p \in bad :
                 \A q \in bad : p[1] < q[1] \/ (p[1] = q[1] /\ p[2] <= q[2])

(* validate_invariants reads the aggregate in memory under the read lock, and   *)
(* does not look at the directory                                               *)
validate_invariants(m) ==
    IF m = None THEN InvalidOperation(<<"no team exists">>)
    ELSE
        LET state == m[1]
            l == leads(state.agents)
            first == CHOOSE i \in l : \A j \in l : i <= j
            dep == unknown_dep(state.tasks)
        IN  IF Cardinality(l) # 1
            THEN InvalidOperation(<<"expected 1 lead, found", Cardinality(l)>>)
            ELSE IF state.agents[first].id # state.lead_id
            THEN InvalidOperation(<<"lead agent ID mismatch">>)
            ELSE IF dep # << >>
            THEN InvalidOperation(<<"task depends on unknown task", state.tasks[dep[1]].id,
                                    state.tasks[dep[1]].depends_on[dep[2]]>>)
            ELSE Ok(None)

----------------------------------------------------------------------------
(* The tool handlers' surroundings (core/src/team/handler.rs) *)

(* FunctionCallError::RespondToModel, and what team_err makes of a TeamError:   *)
(* the variant is gone, its Display text is the message.                        *)
RespondToModel(m) == [kind |-> "RespondToModel", msg |-> m, val |-> None]

Display(e) == IF e.kind = "Io" THEN <<"io">> ELSE e.msg

team_err(e) == RespondToModel(Display(e))

(* Mode strings are sequences of characters.  str::trim, to_ascii_lowercase and *)
(* replace('_', "-") over the characters the modes below are written with.      *)
RECURSIVE TrimStart(_)
TrimStart(s) == IF s # << >> /\ Head(s) = " " THEN TrimStart(Tail(s)) ELSE s

RECURSIVE TrimEnd(_)
TrimEnd(s) ==
    IF s # << >> /\ s[Len(s)] = " " THEN TrimEnd(SubSeq(s, 1, Len(s) - 1)) ELSE s

Trim(s) == TrimEnd(TrimStart(s))

ToAsciiLowercase(c) ==
    CASE c = "T" -> "t" [] c = "M" -> "m" [] c = "U" -> "u" [] c = "X" -> "x"
      [] OTHER -> c

NormalizeMode(s) ==
    LET t == Trim(s)
    IN  [i \in DOMAIN t |-> IF ToAsciiLowercase(t[i]) = "_" THEN "-"
                             ELSE ToAsciiLowercase(t[i])]

ModeTmux == <<"t", "m", "u", "x">>
ModeInProcess == <<"i", "n", "-", "p", "r", "o", "c", "e", "s", "s">>
ModeAuto == <<"a", "u", "t", "o">>

(* tmux_mode_enabled: arg_mode is args.teammate_mode, env_mode the variable     *)
(* CONSOLE_TEAMMATE_MODE, in_tmux whether the variable TMUX is set.             *)
tmux_mode_enabled(arg_mode, env_mode, in_tmux) ==
    LET resolved == IF arg_mode # None THEN NormalizeMode(arg_mode[1])
                    ELSE IF env_mode # None THEN NormalizeMode(env_mode[1])
                    ELSE ModeAuto
    IN  IF resolved = ModeTmux THEN TRUE
        ELSE IF resolved = ModeInProcess THEN FALSE
        ELSE in_tmux

(* The pane backend: p is None outside tmux, else Some(the titles of the open   *)
(* panes, in list-panes order).  Of the tmux commands only split-window, whose  *)
(* failure the code hands on, is taken to fail: fail_at is the index of the     *)
(* split that fails, 0 if none does.                                            *)
PaneTitle(name) == "@" \o name

Filter(s, Keep(_)) ==
    LET F[i \in 0..Len(s)] ==
            IF i = 0 THEN << >>
            ELSE IF Keep(s[i]) THEN Append(F[i - 1], s[i]) ELSE F[i - 1]
    IN  F[Len(s)]

spawn_tmux_agent_panes(p, agents, fail_at) ==
    IF agents = << >> THEN [panes |-> p, res |-> Ok(None)]
    ELSE IF p = None
    THEN [panes |-> p,
          res |-> RespondToModel(<<"teammate_mode=tmux requested, but this session is not running inside tmux">>)]
    ELSE
        LET existing_titles == Range(p[1])
            agents_to_spawn == Filter(agents,
                                   LAMBDA a : PaneTitle(a.name) \notin existing_titles)
            opened == IF fail_at \in DOMAIN agents_to_spawn
                      THEN SubSeq(agents_to_spawn, 1, fail_at - 1)
                      ELSE agents_to_spawn
            titles == [i \in DOMAIN opened |-> PaneTitle(opened[i].name)]
        IN  [panes |-> Some(p[1] \o titles),
             res |-> IF fail_at \in DOMAIN agents_to_spawn
                     THEN RespondToModel(<<"tmux command failed">>)
                     ELSE Ok(None)]

close_tmux_panes_for_agent_names(p, agent_names) ==
    IF agent_names = << >> \/ p = None THEN [panes |-> p, res |-> Ok(0)]
    ELSE
        LET target_titles == {PaneTitle(agent_names[i]) : i \in DOMAIN agent_names}
            kept == Filter(p[1], LAMBDA t : t \notin target_titles)
        IN  [panes |-> Some(kept), res |-> Ok(Len(p[1]) - Len(kept))]

(* The agent backend (agent_control): spawn gives a fresh thread id or an       *)
(* error; shutdown hands the request on and reports ok or an error, and on an   *)
(* error the agent may still be running.                                        *)
ThreadId(n) == "t" \o ToString(n)

spawn_agent(run, n, ok) ==
    IF ok THEN [running |-> run \cup {ThreadId(n + 1)}, spawned |-> n + 1,
                res |-> Ok(ThreadId(n + 1))]
    ELSE [running |-> run, spawned |-> n, res |-> RespondToModel(<<"spawn failed">>)]

shutdown_agent(run, ask, tid, ok) ==
    [running |-> IF ok THEN run \ {tid} ELSE run, asked |-> ask \cup {tid}]

----------------------------------------------------------------------------
(* Callers of the store: one call at a time, each call one step (the store's    *)
(* lock serialises them).  An action's parameters are the bounds of the         *)
(* specification that uses it: io is the number of file-system failures it may  *)
(* see, cap the size a list may reach.                                          *)

TeamNames == {<<"p", "/">>, <<".">>}
LeadNames == {"lead"}
AgentNames == {"w1"}
Titles == {"A"}
Bodies == {"hi"}
Sessions == {"s1", "s2"}

(* The frame of a tool call: where the handler stands and its locals *)
NoCall == [pc |-> "idle", team_name |-> << >>, agents |-> << >>, idx |-> 0,
           spawned_agents |-> << >>, tid |-> None, use_tmux |-> FALSE,
           agent_id |-> "", lead_id |-> "", agent |-> None, panes_closed |-> 0,
           task_id |-> "", result |-> None,
           op |-> "", depends_on |-> << >>, before |-> None, res |-> None,
           loaded |-> None]

IoChoices(io) == IF ioFails < io THEN BOOLEAN ELSE {TRUE}

Agents == IF mem = None THEN << >> ELSE mem[1].agents
Tasks == IF mem = None THEN << >> ELSE mem[1].tasks
Messages == IF mem = None THEN << >> ELSE mem[1].messages

AgentIds == {a.id : a \in Range(Agents)}

(* What a caller may pass for an agent: an id or a name it has seen, or neither *)
AgentRefs == AgentIds \cup {a.name : a \in Range(Agents)} \cup {"nobody"}

TaskIds == {t.id : t \in Range(Tasks)}

TaskRefs == TaskIds \cup {"task-0"}

DepLists ==
    {<< >>} \cup {<<x>> : x \in TaskRefs}
            \cup {<<Tasks[q[1]].id, Tasks[q[2]].id>> :
                     q \in {r \in (DOMAIN Tasks) \X (DOMAIN Tasks) : r[1] < r[2]}}
            \cup {<<Tasks[i].id, "task-0">> : i \in DOMAIN Tasks}

Init ==
    /\ mem = None
    /\ disk = NoFiles
    /\ last = [op |-> "new", res |-> Ok(None), before |-> None, arg |-> None]
    /\ ioFails = 0
    /\ running = {}
    /\ spawned = 0
    /\ submissions = << >>
    /\ asked = {}
    /\ panes = None
    /\ calls = [c \in Sessions |-> NoCall]

TaskBefore(m, task_id) ==
    IF m = None THEN None
    ELSE LET i == FirstIndex(m[1].tasks, LAMBDA t : t.id = task_id)
         IN  IF i = 0 THEN None ELSE Some(m[1].tasks[i])

AgentBefore(m, ref) ==
    IF m = None THEN None
    ELSE LET i == FirstIndex(m[1].agents, LAMBDA a : a.id = ref \/ a.name = ref)
         IN  IF i = 0 THEN None ELSE Some(m[1].agents[i])

Return(op, before, arg, r) ==
    /\ mem' = r.mem
    /\ disk' = r.disk
    /\ last' = [op |-> op, res |-> r.res, before |-> before, arg |-> arg]
    /\ ioFails' = IF r.res.kind = "Io" THEN ioFails + 1 ELSE ioFails

(* whether the directory holds the snapshot file of the team of this name *)
snapshot_exists(d, team_name) ==
    LET safe == sanitize_team_name(team_name) IN
    safe.kind = "Ok" /\ safe.val \in DOMAIN d

CreateTeamNamed(names, io) ==
    \E team_name \in names, lead_name \in LeadNames, ioOk \in IoChoices(io) :
        /\ Return("create_team", mem,
                  Some([team_name |-> team_name, lead_name |-> lead_name,
                        existed |-> snapshot_exists(disk, team_name)]),
                  create_team(mem, disk, team_name, lead_name, ioOk))
        /\ UNCHANGED backend

CreateTeam(io) == CreateTeamNamed(TeamNames, io)

AddAgent(cap, roles, io) ==
    \E m \in try_load_from_disk(mem, disk), name \in AgentNames, role \in roles,
       ioOk \in IoChoices(io) :
        /\ m # None => Len(m[1].agents) < cap
        /\ Return("add_agent", None, None,
                  add_agent(m, disk, name, role, None, None, ioOk))
        /\ UNCHANGED backend

BindLeadThread(threads, io) ==
    \E m \in try_load_from_disk(mem, disk), thread_id \in threads, ioOk \in IoChoices(io) :
        /\ Return("bind_lead_thread", None, None,
                  bind_lead_thread(m, disk, thread_id, ioOk))
        /\ UNCHANGED backend

AddTask(cap, io) ==
    \E m \in try_load_from_disk(mem, disk), title \in Titles, depends_on \in DepLists,
       ioOk \in IoChoices(io) :
        /\ m # None => Len(m[1].tasks) < cap
        /\ Return("add_task", m, Some(depends_on),
                  add_task(m, disk, title, depends_on, ioOk))
        /\ UNCHANGED backend

ClaimTask(refs, io) ==
    \E m \in try_load_from_disk(mem, disk), task_id \in TaskRefs, assignee_id \in refs,
       ioOk \in IoChoices(io) :
        /\ Return("claim_task", TaskBefore(m, task_id), Some(assignee_id),
                  claim_task(m, disk, task_id, assignee_id, ioOk))
        /\ UNCHANGED backend

CompleteTask(io) ==
    \E m \in try_load_from_disk(mem, disk), task_id \in TaskRefs, ioOk \in IoChoices(io) :
        /\ Return("complete_task", TaskBefore(m, task_id), None, complete_task(m, disk, task_id, ioOk))
        /\ UNCHANGED backend

(* complete_task called for this task while it is Pending or InProgress *)
CompleteOpen(task_id) ==
    \E m \in try_load_from_disk(mem, disk) :
        /\ TaskBefore(m, task_id) # None
        /\ TaskBefore(m, task_id)[1].status \in {Pending, InProgress}
        /\ Return("complete_task", TaskBefore(m, task_id), None,
                  complete_task(m, disk, task_id, TRUE))
        /\ UNCHANGED backend

SendMessage(cap, refs, io) ==
    \E m \in try_load_from_disk(mem, disk), from \in refs, to \in refs,
       body \in Bodies, ioOk \in IoChoices(io) :
        /\ m # None => Len(m[1].messages) < cap
        /\ Return("send_message", m, None,
                  send_message(m, disk, from, to, body, ioOk))
        /\ UNCHANGED backend

UpdateAgentStatus(refs, statuses, io) ==
    \E m \in try_load_from_disk(mem, disk), agent_id \in refs,
       status \in statuses, ioOk \in IoChoices(io) :
        /\ Return("update_agent_status", AgentBefore(m, agent_id), Some(status),
                  update_agent_status(m, disk, agent_id, status, ioOk))
        /\ UNCHANGED backend

Cleanup(io) ==
    \E ioOk \in IoChoices(io) :
        /\ Return("cleanup", mem, None, cleanup(mem, disk, ioOk))
        /\ UNCHANGED backend

(* TeamState::new on the same persist_dir: a second instance of the store, with *)
(* nothing in memory, takes the place of the first                              *)
NewInstance ==
    /\ mem # None
    /\ mem' = None
    /\ last' = [op |-> "new", res |-> Ok(None), before |-> mem, arg |-> None]
    /\ UNCHANGED <<disk, ioFails>>
    /\ UNCHANGED backend

GetTeam ==
    \E m \in try_load_from_disk(mem, disk) :
        /\ Return("get_team", mem, None, [mem |-> m, disk |-> disk, res |-> get_team(m)])
        /\ UNCHANGED backend

ListTasks ==
    \E m \in try_load_from_disk(mem, disk) :
        /\ Return("list_tasks", mem, None, [mem |-> m, disk |-> disk, res |-> list_tasks(m)])
        /\ UNCHANGED backend

ValidateInvariants ==
    /\ Return("validate_invariants", mem, None,
              [mem |-> mem, disk |-> disk, res |-> validate_invariants(mem)])
    /\ UNCHANGED backend

(* sanitize_team_name applied to the name drawn *)
SanitizeTeamName ==
    /\ last.op = "name"
    /\ last' = [op |-> "sanitize_team_name", res |-> sanitize_team_name(last.arg[1]),
                before |-> None, arg |-> last.arg]
    /\ UNCHANGED <<mem, disk, ioFails>>
    /\ UNCHANGED backend

ListMessages(limits) ==
    \E m \in try_load_from_disk(mem, disk), limit \in limits :
        /\ Return("list_messages", mem, Some(limit),
                  [mem |-> m, disk |-> disk, res |-> list_messages(m, limit)])
        /\ UNCHANGED backend

----------------------------------------------------------------------------
(* Tool calls.  A handler holds the store's lock only inside each store call,   *)
(* so a handler is one step per store call it awaits, and calls[c] is the frame *)
(* of the call session c has in progress.  A call that returns leaves in `last` *)
(* the aggregate that was resident before its last step, and in `arg` the       *)
(* session and the frame it returned from.                                      *)

Quiet == \A c \in Sessions : calls[c].pc = "idle"

Charge(res) == IF res.kind = "Io" THEN ioFails + 1 ELSE ioFails

(* the handler goes on: no call returned in this step *)
Goto(c, frame) ==
    /\ calls' = [calls EXCEPT ![c] = frame]
    /\ last' = [op |-> "await", res |-> Ok(None), before |-> None, arg |-> None]

ReplyFrom(c, op, before, res, frame) ==
    /\ calls' = [calls EXCEPT ![c] = NoCall]
    /\ last' = [op |-> op, res |-> res, before |-> before,
                arg |-> Some([session |-> c, frame |-> frame])]

Reply(c, op, before, res) == ReplyFrom(c, op, before, res, calls[c])

(* a slip: the caller's thread is never compared with the lead's *)
cleanup_owner_refusal_Anyone(team, conversation_id) ==
    IF FirstIndex(team.agents, LAMBDA a : a.id = team.lead_id) = 0
    THEN Some(RespondToModel(<<"Lead agent not found">>))
    ELSE None

(* handle_team_cleanup: the lead-only check of the caller's thread against the  *)
(* lead's; the error it returns, None if the caller may go on.                  *)
cleanup_owner_refusal(team, conversation_id) ==
    LET i == FirstIndex(team.agents, LAMBDA a : a.id = team.lead_id) IN
    IF i = 0
    THEN Some(RespondToModel(<<"Lead agent not found">>))
    ELSE IF team.agents[i].thread_id # None /\ team.agents[i].thread_id[1] # conversation_id
    THEN Some(RespondToModel(<<"Cleanup must be initiated by the team lead session">>))
    ELSE None

(* handle_team_cleanup, up to the lead-only check: get_team, then the lead's    *)
(* thread against the caller's.                                                 *)
TeamCleanupCall(c) ==
    \E m \in try_load_from_disk(mem, disk) :
        /\ calls[c].pc = "idle"
        /\ mem' = m
        /\ UNCHANGED <<disk, ioFails, running, spawned, submissions, asked, panes>>
        /\ LET got == get_team(m) IN
           IF got.kind # "Ok" THEN Reply(c, "team_cleanup", mem, team_err(got))
           ELSE IF cleanup_owner_refusal(got.val, c) # None
           THEN Reply(c, "team_cleanup", mem, cleanup_owner_refusal(got.val, c)[1])
           ELSE Goto(c, [NoCall EXCEPT !.pc = "cl_gate", !.team_name = got.val.team,
                                       !.agents = got.val.agents])

(* handle_team_cleanup: assert_cleanup_allowed *)
TeamCleanupGate(c) ==
    \E m \in try_load_from_disk(mem, disk) :
        /\ calls[c].pc = "cl_gate"
        /\ mem' = m
        /\ UNCHANGED <<disk, ioFails, running, spawned, submissions, asked, panes>>
        /\ LET allowed == assert_cleanup_allowed(m) IN
           IF allowed.kind # "Ok" THEN Reply(c, "team_cleanup", mem, team_err(allowed))
           ELSE Goto(c, [calls[c] EXCEPT !.pc = "cl_destroy"])

(* handle_team_cleanup: the teammates' panes are closed, then cleanup *)
TeamCleanupDestroy(c, io) ==
    \E ioOk \in IoChoices(io) :
        /\ calls[c].pc = "cl_destroy"
        /\ LET team_agents == calls[c].agents
               teammates == Filter(team_agents, LAMBDA a : a.role = Teammate)
               teammate_names == [i \in DOMAIN teammates |-> teammates[i].name]
               closed == close_tmux_panes_for_agent_names(panes, teammate_names)
               r == cleanup(mem, disk, ioOk)
           IN  /\ panes' = closed.panes
               /\ mem' = r.mem
               /\ disk' = r.disk
               /\ ioFails' = Charge(r.res)
               /\ IF r.res.kind # "Ok" THEN Reply(c, "team_cleanup", mem, team_err(r.res))
                  ELSE Reply(c, "team_cleanup", mem,
                             Ok([team |-> calls[c].team_name, status |-> "cleaned_up",
                                 agents_shutdown |-> 0, panes_closed |-> closed.res.val]))
        /\ UNCHANGED <<running, spawned, submissions, asked>>

(* a slip: the lead is not told from the others *)
shutdown_refusal_Never(lead_id, agent) == None

(* handle_team_shutdown_agent: the error for an agent that may not be shut      *)
(* down, None if it may                                                         *)
shutdown_refusal(lead_id, agent) ==
    IF agent.id = lead_id
    THEN Some(RespondToModel(<<"Cannot shut down the lead agent">>))
    ELSE None

(* handle_team_shutdown_agent: get_team *)
TeamShutdownCall(c, refs) ==
    \E m \in try_load_from_disk(mem, disk), agent_id \in refs :
        /\ calls[c].pc = "idle"
        /\ mem' = m
        /\ UNCHANGED <<disk, ioFails, running, spawned, submissions, asked, panes>>
        /\ LET got == get_team(m) IN
           IF got.kind # "Ok"
           THEN ReplyFrom(c, "team_shutdown_agent", mem, team_err(got),
                          [NoCall EXCEPT !.agent_id = agent_id])
           ELSE Goto(c, [NoCall EXCEPT !.pc = "sd_find", !.agent_id = agent_id,
                                       !.lead_id = got.val.lead_id])

(* handle_team_shutdown_agent: find_agent, and the lead is refused *)
TeamShutdownFind(c) ==
    \E m \in try_load_from_disk(mem, disk) :
        /\ calls[c].pc = "sd_find"
        /\ mem' = m
        /\ UNCHANGED <<disk, ioFails, running, spawned, submissions, asked, panes>>
        /\ LET found == find_agent(m, calls[c].agent_id) IN
           IF found.kind # "Ok" THEN Reply(c, "team_shutdown_agent", mem, team_err(found))
           ELSE IF shutdown_refusal(calls[c].lead_id, found.val) # None
           THEN Reply(c, "team_shutdown_agent", mem,
                      shutdown_refusal(calls[c].lead_id, found.val)[1])
           ELSE Goto(c, [calls[c] EXCEPT !.pc = "sd_stop", !.agent = Some(found.val)])

(* handle_team_shutdown_agent: the agent's thread, if it has one, is shut down  *)
(* with the result dropped, and its pane is closed                              *)
TeamShutdownStop(c) ==
    \E ok \in BOOLEAN :
        /\ calls[c].pc = "sd_stop"
        /\ LET agent == calls[c].agent[1]
               down == IF agent.thread_id # None
                       THEN shutdown_agent(running, asked, agent.thread_id[1], ok)
                       ELSE [running |-> running, asked |-> asked]
               closed == close_tmux_panes_for_agent_names(panes, <<agent.name>>)
           IN  /\ agent.thread_id = None => ok
               /\ running' = down.running
               /\ asked' = down.asked
               /\ panes' = closed.panes
               /\ Goto(c, [calls[c] EXCEPT !.pc = "sd_mark", !.panes_closed = closed.res.val])
        /\ UNCHANGED <<mem, disk, ioFails, spawned, submissions>>

(* handle_team_shutdown_agent: update_agent_status(agent.id, Shutdown) *)
TeamShutdownMark(c, io) ==
    \E m \in try_load_from_disk(mem, disk), ioOk \in IoChoices(io) :
        /\ calls[c].pc = "sd_mark"
        /\ LET agent == calls[c].agent[1]
               r == update_agent_status(m, disk, agent.id, Shutdown, ioOk)
           IN  /\ mem' = r.mem
               /\ disk' = r.disk
               /\ ioFails' = Charge(r.res)
               /\ Reply(c, "team_shutdown_agent", mem,
                        IF r.res.kind # "Ok" THEN team_err(r.res)
                        ELSE Ok([agent_id |-> agent.id, name |-> agent.name,
                                 status |-> "shutdown",
                                 panes_closed |-> calls[c].panes_closed]))
        /\ UNCHANGED <<running, spawned, submissions, asked, panes>>

(* texts a caller attaches to a completed task *)
Results == {None, Some("r1"), Some("r2")}

(* handle_team_complete_task: the arguments are parsed, the store's             *)
(* complete_task is called with the task's id, and the task it returns is the   *)
(* reply. The store's complete_task has a parameter for the id alone: the       *)
(* result text of the arguments reaches no code that writes it.                 *)
TeamCompleteTask(c, io) ==
    \E m \in try_load_from_disk(mem, disk), task_id \in TaskRefs,
       result \in Results, ioOk \in IoChoices(io) :
        /\ calls[c].pc = "idle"
        /\ LET r == complete_task(m, disk, task_id, ioOk)
               args == [NoCall EXCEPT !.task_id = task_id, !.result = result]
           IN  /\ mem' = r.mem
               /\ disk' = r.disk
               /\ ioFails' = Charge(r.res)
               /\ ReplyFrom(c, "team_complete_task", m,
                            IF r.res.kind = "Ok" THEN r.res ELSE team_err(r.res), args)
        /\ UNCHANGED <<running, spawned, submissions, asked, panes>>

(* What a team_create call may ask for *)
AgentSpec(name) == [name |-> name, model |-> None]
AgentSpecLists == {<< >>, <<AgentSpec("w1")>>, <<AgentSpec("w1"), AgentSpec("w2")>>}
TeammateModes == {None, Some(<<" ", "T", "m", "u", "x">>),
                  Some(<<"i", "n", "_", "p", "r", "o", "c", "e", "s", "s">>)}
EnvModes == {None}
CreateNames == {<<"p", "7">>, <<"p", "/">>, <<" ">>}

(* the teammates of an aggregate that are not Shutdown, as AgentSpecs *)
ActiveSpecs(agents) ==
    LET active == Filter(agents, LAMBDA a : a.role = Teammate /\ a.status # Shutdown)
    IN  [i \in DOMAIN active |-> [name |-> active[i].name, model |-> active[i].model]]

(* handle_team_create up to its get_team: the join of a team of this name, the  *)
(* refusal while another team is resident, or on to create_team.                *)
TeamCreateCall(c) ==
    \E team_name \in CreateNames, agents \in AgentSpecLists,
       teammate_mode \in TeammateModes, env_mode \in EnvModes,
       m \in try_load_from_disk(mem, disk) :
        /\ calls[c].pc = "idle"
        /\ spawned + Len(agents) <= MaxSpawns
        /\ UNCHANGED <<disk, ioFails, running, spawned, submissions, asked>>
        /\ LET use_tmux == tmux_mode_enabled(teammate_mode, env_mode, panes # None)
               got == get_team(m)
               args == [NoCall EXCEPT !.team_name = team_name, !.agents = agents,
                                      !.use_tmux = use_tmux]
           IN  IF Trim(team_name) = << >>
               THEN /\ UNCHANGED <<mem, panes>>
                    /\ ReplyFrom(c, "team_create", mem,
                                 RespondToModel(<<"team_name must not be empty">>), args)
               ELSE IF got.kind # "Ok"
               THEN /\ mem' = m
                    /\ UNCHANGED panes
                    /\ Goto(c, [args EXCEPT !.pc = "tc_create"])
               ELSE IF got.val.team # team_name
               THEN /\ mem' = m
                    /\ UNCHANGED panes
                    /\ ReplyFrom(c, "team_create", m,
                                 RespondToModel(<<"team already exists", got.val.team,
                                                  team_name>>), args)
               ELSE IF ~use_tmux
               THEN /\ mem' = m
                    /\ UNCHANGED panes
                    /\ ReplyFrom(c, "team_create", m, Ok(got.val), args)
               ELSE \E fail_at \in 0..Len(ActiveSpecs(got.val.agents)) :
                        LET opened == spawn_tmux_agent_panes(
                                          panes, ActiveSpecs(got.val.agents), fail_at)
                        IN  /\ mem' = m
                            /\ panes' = opened.panes
                            /\ ReplyFrom(c, "team_create", m,
                                         IF opened.res.kind # "Ok" THEN opened.res
                                         ELSE Ok(got.val), args)

(* handle_team_create: create_team *)
TeamCreateCreate(c, io) ==
    \E ioOk \in IoChoices(io) :
        /\ calls[c].pc = "tc_create"
        /\ LET r == create_team(mem, disk, calls[c].team_name, "lead", ioOk) IN
           /\ mem' = r.mem
           /\ disk' = r.disk
           /\ ioFails' = Charge(r.res)
           /\ IF r.res.kind # "Ok" THEN Reply(c, "team_create", None, team_err(r.res))
              ELSE Goto(c, [calls[c] EXCEPT !.pc = "tc_bind"])
        /\ UNCHANGED <<running, spawned, submissions, asked, panes>>

(* handle_team_create: bind_lead_thread, whose error is handed on as it is *)
TeamCreateBind(c, io) ==
    \E m \in try_load_from_disk(mem, disk), ioOk \in IoChoices(io) :
        /\ calls[c].pc = "tc_bind"
        /\ LET r == bind_lead_thread(m, disk, c, ioOk) IN
           /\ mem' = r.mem
           /\ disk' = r.disk
           /\ ioFails' = Charge(r.res)
           /\ IF r.res.kind # "Ok" THEN Reply(c, "team_create", None, team_err(r.res))
              ELSE Goto(c, [calls[c] EXCEPT !.pc =
                               IF calls[c].use_tmux
                               THEN (IF calls[c].agents = << >> THEN "tc_panes" ELSE "tc_add")
                               ELSE (IF calls[c].agents = << >> THEN "tc_final" ELSE "tc_spawn")])
        /\ UNCHANGED <<running, spawned, submissions, asked, panes>>

(* The rollback loop over spawned_agents: each shutdown is asked for, and its   *)
(* result dropped; oks[i] says whether the i-th one stopped its agent.          *)
RECURSIVE ShutdownAll(_, _, _, _)
ShutdownAll(run, ask, tids, oks) ==
    IF tids = << >> THEN [running |-> run, asked |-> ask]
    ELSE LET one == shutdown_agent(run, ask, Head(tids), Head(oks))
         IN  ShutdownAll(one.running, one.asked, Tail(tids), Tail(oks))

(* handle_team_create, in-process: spawn_agent for the next teammate; on its    *)
(* error the agents spawned so far are shut down, cleanup is called with its    *)
(* result dropped, and the error names the teammate.                            *)
TeamCreateSpawn(c, io) ==
    \E ok \in BOOLEAN :
        /\ calls[c].pc = "tc_spawn"
        /\ LET spec == calls[c].agents[calls[c].idx + 1]
               sp == spawn_agent(running, spawned, ok)
           IN  IF sp.res.kind = "Ok"
               THEN /\ running' = sp.running
                    /\ spawned' = sp.spawned
                    /\ Goto(c, [calls[c] EXCEPT !.pc = "tc_register", !.tid = Some(sp.res.val)])
                    /\ UNCHANGED <<mem, disk, ioFails, asked, panes, submissions>>
               ELSE \E oks \in [DOMAIN calls[c].spawned_agents -> BOOLEAN],
                       ioOk \in IoChoices(io) :
                        LET down == ShutdownAll(running, asked, calls[c].spawned_agents, oks)
                            r == cleanup(mem, disk, ioOk)
                        IN  /\ running' = down.running
                            /\ asked' = down.asked
                            /\ mem' = r.mem
                            /\ disk' = r.disk
                            /\ ioFails' = Charge(r.res)
                            /\ Reply(c, "team_create", None,
                                     RespondToModel(<<"failed to spawn agent", spec.name,
                                                      sp.res.msg[1], "(team rolled back)">>))
                            /\ UNCHANGED <<spawned, submissions, panes>>

(* handle_team_create, in-process: add_agent for the thread just spawned, whose *)
(* error is handed on as it is; the thread joins spawned_agents after it.       *)
TeamCreateRegister(c, io) ==
    \E m \in try_load_from_disk(mem, disk), ioOk \in IoChoices(io) :
        /\ calls[c].pc = "tc_register"
        /\ LET spec == calls[c].agents[calls[c].idx + 1]
               r == add_agent(m, disk, spec.name, Teammate, calls[c].tid, spec.model, ioOk)
           IN  /\ mem' = r.mem
               /\ disk' = r.disk
               /\ ioFails' = Charge(r.res)
               /\ IF r.res.kind # "Ok" THEN Reply(c, "team_create", None, team_err(r.res))
                  ELSE Goto(c, [calls[c] EXCEPT
                                   !.spawned_agents = Append(@, calls[c].tid[1]),
                                   !.tid = None,
                                   !.idx = @ + 1,
                                   !.pc = IF calls[c].idx + 1 = Len(calls[c].agents)
                                          THEN "tc_final" ELSE "tc_spawn"])
        /\ UNCHANGED <<running, spawned, submissions, asked, panes>>

(* handle_team_create, tmux: add_agent for the next teammate, without a thread *)
TeamCreateAdd(c, io) ==
    \E m \in try_load_from_disk(mem, disk), ioOk \in IoChoices(io) :
        /\ calls[c].pc = "tc_add"
        /\ LET spec == calls[c].agents[calls[c].idx + 1]
               r == add_agent(m, disk, spec.name, Teammate, None, spec.model, ioOk)
           IN  /\ mem' = r.mem
               /\ disk' = r.disk
               /\ ioFails' = Charge(r.res)
               /\ IF r.res.kind # "Ok" THEN Reply(c, "team_create", None, team_err(r.res))
                  ELSE Goto(c, [calls[c] EXCEPT
                                   !.idx = @ + 1,
                                   !.pc = IF calls[c].idx + 1 = Len(calls[c].agents)
                                          THEN "tc_panes" ELSE "tc_add"])
        /\ UNCHANGED <<running, spawned, submissions, asked, panes>>

(* handle_team_create, tmux: the panes are opened; on an error the panes of the *)
(* requested names are closed, cleanup is called with its result dropped, and   *)
(* the error is handed on.                                                      *)
TeamCreatePanes(c, io) ==
    \E fail_at \in 0..Len(calls[c].agents), ioOk \in IoChoices(io) :
        /\ calls[c].pc = "tc_panes"
        /\ LET opened == spawn_tmux_agent_panes(panes, calls[c].agents, fail_at)
               names == [i \in DOMAIN calls[c].agents |-> calls[c].agents[i].name]
               closed == close_tmux_panes_for_agent_names(opened.panes, names)
               r == cleanup(mem, disk, ioOk)
           IN  IF opened.res.kind = "Ok"
               THEN /\ panes' = opened.panes
                    /\ Goto(c, [calls[c] EXCEPT !.pc = "tc_final"])
                    /\ UNCHANGED <<mem, disk, ioFails>>
               ELSE /\ panes' = closed.panes
                    /\ mem' = r.mem
                    /\ disk' = r.disk
                    /\ ioFails' = Charge(r.res)
                    /\ Reply(c, "team_create", None, opened.res)
        /\ UNCHANGED <<running, spawned, submissions, asked>>

(* handle_team_create: the closing get_team, whose aggregate is the answer *)
TeamCreateFinal(c) ==
    \E m \in try_load_from_disk(mem, disk) :
        /\ calls[c].pc = "tc_final"
        /\ mem' = m
        /\ LET got == get_team(m) IN
           Reply(c, "team_create", None, IF got.kind # "Ok" THEN team_err(got) ELSE got)
        /\ UNCHANGED <<disk, ioFails, running, spawned, submissions, asked, panes>>

----------------------------------------------------------------------------
(* Callers of one store that run at the same time.  A mutating operation takes  *)
(* the write lock (self.data.write().await), changes the aggregate in place     *)
(* through the guard, awaits persist_inner with the guard still alive, and      *)
(* returns, which drops the guard.  calls[c] is the frame of caller c: the      *)
(* operation and its arguments, idx the place of the call in the order the lock *)
(* was granted, before the aggregate it found, res what it will return.         *)

(* a slip: the lock is granted whoever holds it *)
write_lock_free_Always(cs) == TRUE

(* RwLock: no caller holds the write guard *)
write_lock_free(cs) ==
    \A c \in Sessions : cs[c].pc \notin {"st_held", "st_unblock", "st_persist", "ct_persist"}

(* the operation of a frame, run on aggregate m and directory d *)
Apply(f, m, d, ioOk) ==
    CASE f.op = "claim_task" -> claim_task(m, d, f.task_id, f.agent_id, ioOk)
      [] f.op = "complete_task" -> complete_task(m, d, f.task_id, ioOk)
      [] f.op = "add_task" -> add_task(m, d, "A", f.depends_on, ioOk)

(* the calls a caller may make *)
StoreCalls ==
    {[NoCall EXCEPT !.pc = "st_wait", !.op = "claim_task", !.task_id = t, !.agent_id = a] :
         t \in TaskIds, a \in AgentIds}
    \cup {[NoCall EXCEPT !.pc = "st_wait", !.op = "complete_task", !.task_id = t] :
              t \in TaskIds}
    \cup {[NoCall EXCEPT !.pc = "st_wait", !.op = "add_task", !.depends_on = d] :
              d \in {<< >>} \cup {<<t>> : t \in TaskIds}}

(* the call begins: try_load_from_disk finds an aggregate in memory and returns *)
StoreBegin(c, cap) ==
    /\ calls[c].pc = "idle"
    /\ mem # None
    /\ \E f \in StoreCalls :
           /\ f.op = "add_task" => Len(Tasks) + Cardinality({x \in Sessions :
                                       calls[x].op = "add_task"}) < cap
           /\ Goto(c, f)
    /\ UNCHANGED <<mem, disk, ioFails, running, spawned, submissions, asked, panes>>

(* self.data.write().await returns the guard *)
StoreAcquire(c) ==
    /\ calls[c].pc = "st_wait"
    /\ write_lock_free(calls)
    /\ Goto(c, [calls[c] EXCEPT !.pc = "st_held",
                    !.idx = 1 + Cardinality({x \in Sessions : calls[x].idx > 0})])
    /\ UNCHANGED <<mem, disk, ioFails, running, spawned, submissions, asked, panes>>

(* the body of the operation up to persist_inner: a refusal returns at once,    *)
(* complete_task marks the task and goes on to its unblock loop, the others     *)
(* make their change                                                            *)
StoreMutate(c, io) ==
    /\ calls[c].pc = "st_held"
    /\ \E ioOk \in IoChoices(io) :
           LET r == Apply(calls[c], mem, disk, ioOk)
               f == [calls[c] EXCEPT !.before = mem, !.res = Some(r.res)]
               i == FirstIndex(Tasks, LAMBDA t : t.id = f.task_id)
           IN  IF r.res.kind \notin {"Ok", "Io"}
               THEN /\ mem' = mem
                    /\ calls' = [calls EXCEPT ![c] = [f EXCEPT !.pc = "st_done"]]
                    /\ last' = [op |-> f.op, res |-> r.res, before |-> mem, arg |-> Some(f)]
               ELSE IF f.op = "complete_task"
               THEN /\ mem' = Some([mem[1] EXCEPT !.tasks[i].status = Completed])
                    /\ Goto(c, [f EXCEPT !.pc = "st_unblock"])
               ELSE /\ mem' = r.mem
                    /\ Goto(c, [f EXCEPT !.pc = "st_persist"])
    /\ UNCHANGED <<disk, ioFails, running, spawned, submissions, asked, panes>>

(* complete_task: the auto-unblock loop *)
StoreUnblock(c) ==
    /\ calls[c].pc = "st_unblock"
    /\ mem' = Some([mem[1] EXCEPT !.tasks =
                       Unblock(@, {t.id : t \in {x \in Range(@) : x.status = Completed}})])
    /\ Goto(c, [calls[c] EXCEPT !.pc = "st_persist"])
    /\ UNCHANGED <<disk, ioFails, running, spawned, submissions, asked, panes>>

(* persist_inner(..).await?, then the return, which drops the guard *)
StoreReturn(c) ==
    /\ calls[c].pc = "st_persist"
    /\ LET res == calls[c].res[1]
           p == persist_inner(disk, mem[1], res.kind = "Ok")
       IN  /\ disk' = p.disk
           /\ ioFails' = Charge(res)
           /\ calls' = [calls EXCEPT ![c] = [@ EXCEPT !.pc = "st_done"]]
           /\ last' = [op |-> calls[c].op, res |-> res, before |-> calls[c].before,
                       arg |-> Some(calls[c])]
    /\ UNCHANGED <<mem, running, spawned, submissions, asked, panes>>

(* every caller has its result: the next round of calls *)
StoreSettle ==
    /\ \A c \in Sessions : calls[c].pc = "st_done"
    /\ calls' = [c \in Sessions |-> NoCall]
    /\ last' = [op |-> "await", res |-> Ok(None), before |-> None, arg |-> None]
    /\ UNCHANGED <<mem, disk, ioFails, running, spawned, submissions, asked, panes>>

(* a slip: the snapshot is installed without a second look *)
install_if_empty_Always(m, loaded) == loaded

(* try_load_from_disk, under the write lock: the snapshot read is installed if  *)
(* nothing is in memory                                                         *)
install_if_empty(m, loaded) == IF m = None THEN loaded ELSE m

(* get_team begins: the fast path of try_load_from_disk looks at the memory     *)
(* under the read lock; with an aggregate there get_team returns it             *)
LoadBegin(c) ==
    /\ calls[c].pc = "idle"
    /\ write_lock_free(calls)
    /\ disk # NoFiles
    /\ IF mem # None
       THEN ReplyFrom(c, "get_team", mem, get_team(mem), [NoCall EXCEPT !.op = "get_team"])
       ELSE Goto(c, [NoCall EXCEPT !.pc = "ld_scan", !.op = "get_team"])
    /\ UNCHANGED <<mem, disk, ioFails, running, spawned, submissions, asked, panes>>

(* try_load_from_disk: read_dir and the read of the first file found *)
LoadScan(c) ==
    /\ calls[c].pc = "ld_scan"
    /\ IF disk = NoFiles
       THEN Goto(c, [calls[c] EXCEPT !.pc = "ld_get"])
       ELSE \E f \in DOMAIN disk :
                Goto(c, [calls[c] EXCEPT !.pc = "ld_install", !.loaded = Some(disk[f])])
    /\ UNCHANGED <<mem, disk, ioFails, running, spawned, submissions, asked, panes>>

(* try_load_from_disk: the write lock is taken and the memory looked at again *)
LoadInstall(c) ==
    /\ calls[c].pc = "ld_install"
    /\ write_lock_free(calls)
    /\ mem' = install_if_empty(mem, calls[c].loaded)
    /\ calls' = [calls EXCEPT ![c] = [@ EXCEPT !.pc = "ld_get"]]
    /\ last' = [op |-> "try_load_from_disk", res |-> Ok(calls[c].loaded[1]),
                before |-> mem, arg |-> Some(calls[c])]
    /\ UNCHANGED <<disk, ioFails, running, spawned, submissions, asked, panes>>

(* get_team, after try_load_from_disk: the read lock, and the aggregate or the  *)
(* error                                                                        *)
LoadGet(c) ==
    /\ calls[c].pc = "ld_get"
    /\ write_lock_free(calls)
    /\ Reply(c, "get_team", mem, get_team(mem))
    /\ UNCHANGED <<mem, disk, ioFails, running, spawned, submissions, asked, panes>>

(* create_team begins: the name is sanitized, the write lock taken and the      *)
(* memory looked at                                                             *)
CreateBegin(c) ==
    /\ calls[c].pc = "idle"
    /\ write_lock_free(calls)
    /\ disk # NoFiles
    /\ \E team_name \in TeamNames :
           LET r == create_team(mem, disk, team_name, "lead", TRUE)
               f == [NoCall EXCEPT !.op = "create_team", !.team_name = team_name]
           IN  IF r.res.kind # "Ok"
               THEN ReplyFrom(c, "create_team", mem, r.res, f)
               ELSE Goto(c, [f EXCEPT !.pc = "ct_persist"])
    /\ UNCHANGED <<mem, disk, ioFails, running, spawned, submissions, asked, panes>>

(* create_team: persist_inner, the aggregate is put in memory, and the return   *)
(* drops the guard                                                              *)
CreatePersist(c, io) ==
    /\ calls[c].pc = "ct_persist"
    /\ \E ioOk \in IoChoices(io) :
           LET r == create_team(None, disk, calls[c].team_name, "lead", ioOk) IN
           /\ mem' = IF r.res.kind = "Ok" THEN r.mem ELSE mem
           /\ disk' = r.disk
           /\ ioFails' = Charge(r.res)
           /\ Reply(c, "create_team", mem, r.res)
    /\ UNCHANGED <<running, spawned, submissions, asked, panes>>

(* what a reader may see: list_tasks and get_team take the read lock, which is  *)
(* granted while no writer holds the lock                                       *)
Observable == write_lock_free(calls)

----------------------------------------------------------------------------
(* The task board: teammates join, tasks are added, claimed and completed, with *)
(* a file system that does not fail.                                            *)
Next ==
    \/ CreateTeam(0)
    \/ AddAgent(MaxAgents, {Teammate}, 0)
    \/ AddTask(MaxTasks, 0)
    \/ ClaimTask(AgentRefs, 0)
    \/ CompleteTask(0)
    \/ Cleanup(0)

Spec == Init /\ [][Next]_vars

(* The whole store, with a file system that may fail *)
NextStore ==
    \/ CreateTeam(MaxIoFailures)
    \/ AddAgent(MaxAgents, {Teammate}, MaxIoFailures)
    \/ BindLeadThread({"s1"}, MaxIoFailures)
    \/ AddTask(MaxStoreTasks, MaxIoFailures)
    \/ ClaimTask(AgentIds \cup {"nobody"}, MaxIoFailures)
    \/ CompleteTask(MaxIoFailures)
    \/ SendMessage(MaxMessages, {"agent-1"}, MaxIoFailures)
    \/ UpdateAgentStatus(AgentIds \cup {"nobody"}, {Shutdown}, MaxIoFailures)
    \/ Cleanup(MaxIoFailures)

SpecStore == Init /\ [][NextStore]_vars

(* One task, claimed and re-claimed by id and by name, with a file system that *)
(* may fail                                                                    *)
NextClaim ==
    \/ CreateTeam(MaxIoFailures)
    \/ AddAgent(MaxAgents, {Teammate}, MaxIoFailures)
    \/ AddTask(MaxClaimTasks, MaxIoFailures)
    \/ ClaimTask(AgentRefs, MaxIoFailures)
    \/ CompleteTask(MaxIoFailures)

SpecClaim == Init /\ [][NextClaim]_vars

(* Cleanup requested by either session while other callers of the store add    *)
(* agents, bind the lead and change agents' statuses; every step interleaves.   *)
NextRace ==
    \/ CreateTeam(0)
    \/ AddAgent(MaxAgents, {Teammate}, 0)
    \/ BindLeadThread({"s1"}, 0)
    \/ UpdateAgentStatus(AgentIds, {Shutdown}, 0)
    \/ \E c \in Sessions : TeamCleanupCall(c)
    \/ \E c \in Sessions : TeamCleanupGate(c)
    \/ \E c \in Sessions : TeamCleanupDestroy(c, 0)

SpecRace == Init /\ [][NextRace]_vars

(* Tool calls made one at a time: teams are created with their teammates,      *)
(* inside tmux and outside, agents are marked Shutdown, and either session asks *)
(* for cleanup; the file system may fail.                                       *)
InitTeam ==
    /\ mem = None
    /\ disk = NoFiles
    /\ last = [op |-> "new", res |-> Ok(None), before |-> None, arg |-> None]
    /\ ioFails = 0
    /\ running = {}
    /\ spawned = 0
    /\ submissions = << >>
    /\ asked = {}
    /\ panes \in {None, Some(<< >>)}
    /\ calls = [c \in Sessions |-> NoCall]

NextTeam ==
    \/ \E c \in Sessions : Quiet /\ TeamCreateCall(c)
    \/ \E c \in Sessions : TeamCreateCreate(c, MaxIoFailures)
    \/ \E c \in Sessions : TeamCreateBind(c, MaxIoFailures)
    \/ \E c \in Sessions : TeamCreateSpawn(c, MaxIoFailures)
    \/ \E c \in Sessions : TeamCreateRegister(c, MaxIoFailures)
    \/ \E c \in Sessions : TeamCreateAdd(c, MaxIoFailures)
    \/ \E c \in Sessions : TeamCreatePanes(c, MaxIoFailures)
    \/ \E c \in Sessions : TeamCreateFinal(c)
    \/ Quiet /\ UpdateAgentStatus(AgentIds, {Shutdown}, MaxIoFailures)
    \/ \E c \in Sessions : Quiet /\ TeamCleanupCall(c)
    \/ \E c \in Sessions : TeamCleanupGate(c)
    \/ \E c \in Sessions : TeamCleanupDestroy(c, MaxIoFailures)

SpecTeam == InitTeam /\ [][NextTeam]_vars

(* Teams are created with their teammates and agents are shut down by id and   *)
(* by name, one tool call at a time; the file system and the backend may fail.  *)
NextShutdown ==
    \/ \E c \in Sessions : Quiet /\ TeamCreateCall(c)
    \/ \E c \in Sessions : TeamCreateCreate(c, MaxIoFailures)
    \/ \E c \in Sessions : TeamCreateBind(c, MaxIoFailures)
    \/ \E c \in Sessions : TeamCreateSpawn(c, MaxIoFailures)
    \/ \E c \in Sessions : TeamCreateRegister(c, MaxIoFailures)
    \/ \E c \in Sessions : TeamCreateAdd(c, MaxIoFailures)
    \/ \E c \in Sessions : TeamCreatePanes(c, MaxIoFailures)
    \/ \E c \in Sessions : TeamCreateFinal(c)
    \/ \E c \in Sessions : Quiet /\ TeamShutdownCall(c, AgentRefs)
    \/ \E c \in Sessions : TeamShutdownFind(c)
    \/ \E c \in Sessions : TeamShutdownStop(c)
    \/ \E c \in Sessions : TeamShutdownMark(c, MaxIoFailures)

SpecShutdown == InitTeam /\ [][NextShutdown]_vars


(* Two instances of the store, one after the other, on one directory *)
NextLoad ==
    \/ CreateTeam(MaxIoFailures)
    \/ AddAgent(MaxAgents, {Teammate}, MaxIoFailures)
    \/ AddTask(MaxClaimTasks, MaxIoFailures)
    \/ UpdateAgentStatus(AgentIds, {Shutdown}, 0)
    \/ NewInstance
    \/ GetTeam
    \/ ListTasks
    \/ Cleanup(MaxIoFailures)

SpecLoad == Init /\ [][NextLoad]_vars

(* The aggregates a store may have adopted from a snapshot that it did not      *)
(* write: any lead_id, agents and tasks that deserialise                        *)
AuditAgentIds == {"agent-1", "agent-2"}

AuditAgent(id, role) ==
    [id |-> id, name |-> "w1", role |-> role, status |-> Active,
     model |-> None, thread_id |-> None]

AuditAgentLists ==
    LET one == {AuditAgent(id, role) : id \in AuditAgentIds, role \in {Lead, Teammate}}
    IN  {<< >>} \cup {<<a>> : a \in one} \cup {<<a, b>> : a \in one, b \in one}

AuditDeps == {<< >>, <<"task-1">>, <<"task-2">>, <<"task-1", "task-0">>}

AuditTask(id, deps) ==
    [id |-> id, title |-> "A", status |-> Pending, assignee_id |-> None,
     result |-> None, depends_on |-> deps]

AuditTaskLists ==
    {<< >>} \cup {<<AuditTask("task-1", d)>> : d \in AuditDeps}
            \cup {<<AuditTask("task-1", d), AuditTask("task-2", e)>> :
                     d \in AuditDeps, e \in AuditDeps}

InitAudit ==
    /\ \E lead_id \in AuditAgentIds, agents \in AuditAgentLists, tasks \in AuditTaskLists :
           LET state == [team |-> <<"p">>, lead_id |-> lead_id, agents |-> agents,
                         tasks |-> tasks, messages |-> << >>]
           IN  /\ mem \in {None, Some(state)}
               /\ disk = WriteFile(NoFiles, <<"p">>, state)
    /\ last = [op |-> "new", res |-> Ok(None), before |-> None, arg |-> None]
    /\ ioFails = 0
    /\ running = {}
    /\ spawned = 0
    /\ submissions = << >>
    /\ asked = {}
    /\ panes = None
    /\ calls = [c \in Sessions |-> NoCall]

NextAudit ==
    \/ ValidateInvariants
    \/ GetTeam

SpecAudit == InitAudit /\ [][NextAudit]_vars

(* Names of up to MaxNameLen characters: ASCII letters and digits, '-', '_',     *)
(* '.', and characters that are not allowed, one of them a letter outside ASCII *)
MaxNameLen == 3

NameChars == {"p", "7", "-", "_", ".", "/", "é"}

Names == UNION {[1..n -> NameChars] : n \in 0..MaxNameLen}

InitNames ==
    /\ mem = None
    /\ disk = NoFiles
    /\ \E name \in Names :
           last = [op |-> "name", res |-> Ok(None), before |-> None, arg |-> Some(name)]
    /\ ioFails = 0
    /\ running = {}
    /\ spawned = 0
    /\ submissions = << >>
    /\ asked = {}
    /\ panes = None
    /\ calls = [c \in Sessions |-> NoCall]

NextNames == SanitizeTeamName

SpecNames == InitNames /\ [][NextNames]_vars

(* A team of any name of up to MaxPathNameLen characters, its snapshot written, *)
(* rewritten and removed                                                        *)
MaxPathNameLen == 2

PathNames == {name \in Names : Len(name) <= MaxPathNameLen}

NextPaths ==
    \/ CreateTeamNamed(PathNames, MaxIoFailures)
    \/ AddTask(MaxClaimTasks, MaxIoFailures)
    \/ CompleteTask(MaxIoFailures)
    \/ Cleanup(MaxIoFailures)

SpecPaths == Init /\ [][NextPaths]_vars

----------------------------------------------------------------------------
(* PlanApprovalState: the plans that teammates submit for the lead's approval    *)

PlanPending == "Pending"
PlanApproved == "Approved"
PlanRejected == "Rejected"

PlanError(msg) == [kind |-> "Err", msg |-> msg, val |-> None]

(* DelegatePolicy.max_plan_revisions, and the number of submissions in one       *)
(* behaviour                                                                     *)
MaxPlanRevisions == 2
MaxSubmissions == 3

(* format!("plan-{}-{}", agent_id, revision_count + 1): the text is made of the  *)
(* agent id and the number, and of nothing else                                  *)
plan_id(agent_id, revision) == <<"plan", agent_id, revision>>

(* submit_plan: the submissions of this agent for this task so far *)
revision_count(subs, agent_id, task_id) ==
    Cardinality({i \in DOMAIN subs : subs[i].agent_id = agent_id /\ subs[i].task_id = task_id})

submit_plan(subs, agent_id, task_id, plan_text, max_plan_revisions) ==
    LET count == revision_count(subs, agent_id, task_id) IN
    IF count >= max_plan_revisions
    THEN [subs |-> subs,
          res |-> PlanError(<<"max plan revisions reached for agent", max_plan_revisions, agent_id>>)]
    ELSE LET submission == [id |-> plan_id(agent_id, count + 1), agent_id |-> agent_id,
                            task_id |-> task_id, plan_text |-> plan_text,
                            status |-> PlanPending, feedback |-> None,
                            revision |-> count + 1]
         IN  [subs |-> Append(subs, submission), res |-> Ok(submission)]

(* approve_plan and reject_plan: the first submission of that id is the one      *)
(* found; it must be Pending                                                     *)
review_plan(subs, id, status, feedback) ==
    LET i == FirstIndex(subs, LAMBDA sub : sub.id = id) IN
    IF i = 0 THEN [subs |-> subs, res |-> PlanError(<<"plan not found", id>>)]
    ELSE IF subs[i].status # PlanPending
    THEN [subs |-> subs, res |-> PlanError(<<"plan is not pending", id, subs[i].status>>)]
    ELSE LET plan == [subs[i] EXCEPT !.status = status,
                                     !.feedback = IF feedback = None THEN @ ELSE feedback]
         IN  [subs |-> [subs EXCEPT ![i] = plan], res |-> Ok(plan)]

approve_plan(subs, id) == review_plan(subs, id, PlanApproved, None)

reject_plan(subs, id, feedback) == review_plan(subs, id, PlanRejected, Some(feedback))

PlanAgents == {"agent-1", "agent-2"}
PlanTasks == {None, Some("task-1"), Some("task-2")}
PlanTexts == {"plan"}
Feedbacks == {"redo"}

(* the ids a lead may pass: those of the submissions, and one of none *)
PlanIds == {submissions[i].id : i \in DOMAIN submissions} \cup {plan_id("agent-1", 9)}

PlanReturn(op, arg, r) ==
    /\ submissions' = r.subs
    /\ last' = [op |-> op, res |-> r.res, before |-> Some(submissions), arg |-> arg]
    /\ UNCHANGED <<mem, disk, ioFails, running, spawned, asked, panes, calls>>

SubmitPlan ==
    \E agent_id \in PlanAgents, task_id \in PlanTasks, plan_text \in PlanTexts :
        /\ Len(submissions) < MaxSubmissions
        /\ PlanReturn("submit_plan", Some(task_id),
                      submit_plan(submissions, agent_id, task_id, plan_text, MaxPlanRevisions))

ApprovePlan ==
    \E id \in PlanIds :
        PlanReturn("approve_plan", Some(id), approve_plan(submissions, id))

RejectPlan ==
    \E id \in PlanIds, feedback \in Feedbacks :
        PlanReturn("reject_plan", Some(id), reject_plan(submissions, id, feedback))

NextPlans == SubmitPlan \/ ApprovePlan \/ RejectPlan

SpecPlans == Init /\ [][NextPlans]_vars

(* A board whose Pending and InProgress tasks are completed sooner or later:     *)
(* whoever holds such a task calls complete_task for it.  Of the calls, those    *)
(* that return Ok are taken: a refused call changes nothing.                     *)
LiveTaskIds == {generate_id("task", n) : n \in 1..MaxTasks}

NextLive ==
    /\ \/ CreateTeam(0)
       \/ AddTask(MaxTasks, 0)
       \/ ClaimTask({"agent-1"}, 0)
       \/ CompleteTask(0)
    /\ last'.res.kind = "Ok"

SpecLive ==
    /\ Init
    /\ [][NextLive]_vars
    /\ \A task_id \in LiveTaskIds : WF_vars(CompleteOpen(task_id))

(* A log of up to MaxLogMessages messages between the lead and a name, listed   *)
(* whole and with every limit up to one more than its length can be             *)
MaxLogMessages == 3

Limits == {None} \cup {Some(n) : n \in 0..(MaxLogMessages + 1)}

NextLog ==
    \/ CreateTeam(0)
    \/ SendMessage(MaxLogMessages, {"agent-1", "w1"}, MaxIoFailures)
    \/ ListMessages(Limits)

SpecLog == Init /\ [][NextLog]_vars

(* Two callers of one store at a time, on a team that was set up while no call  *)
(* was in progress                                                              *)
NextSerial ==
    \/ (Quiet /\ CreateTeam(0))
    \/ (Quiet /\ AddAgent(MaxAgents, {Teammate}, 0))
    \/ (Quiet /\ AddTask(MaxStoreTasks, 0))
    \/ \E c \in Sessions : StoreBegin(c, MaxStoreTasks)
    \/ \E c \in Sessions : StoreAcquire(c)
    \/ \E c \in Sessions : StoreMutate(c, MaxIoFailures)
    \/ \E c \in Sessions : StoreUnblock(c)
    \/ \E c \in Sessions : StoreReturn(c)
    \/ StoreSettle

SpecSerial == Init /\ [][NextSerial]_vars

(* A second instance of the store on the directory of a first, with callers of *)
(* get_team and create_team at the same time                                    *)
NextLoadRace ==
    \/ (Quiet /\ CreateTeam(0))
    \/ (Quiet /\ AddTask(MaxClaimTasks, 0))
    \/ (Quiet /\ NewInstance)
    \/ \E c \in Sessions : LoadBegin(c)
    \/ \E c \in Sessions : LoadScan(c)
    \/ \E c \in Sessions : LoadInstall(c)
    \/ \E c \in Sessions : LoadGet(c)
    \/ \E c \in Sessions : CreateBegin(c)
    \/ \E c \in Sessions : CreatePersist(c, MaxIoFailures)

SpecLoadRace == Init /\ [][NextLoadRace]_vars

(* cleanup by a caller of the instance: the write lock is held from the look at  *)
(* the memory to the return                                                      *)
CleanupCall(io) == write_lock_free(calls) /\ Cleanup(io)

(* A second instance of the store on the directory of a first, with callers of  *)
(* get_team and of cleanup at the same time                                      *)
NextCleanupRace ==
    \/ (Quiet /\ CreateTeam(0))
    \/ (Quiet /\ AddTask(MaxClaimTasks, 0))
    \/ (Quiet /\ NewInstance)
    \/ \E c \in Sessions : LoadBegin(c)
    \/ \E c \in Sessions : LoadScan(c)
    \/ \E c \in Sessions : LoadInstall(c)
    \/ \E c \in Sessions : LoadGet(c)
    \/ CleanupCall(0)

SpecCleanupRace == Init /\ [][NextCleanupRace]_vars

(* The store called with every role add_agent takes, and audited *)
NextRoles ==
    \/ CreateTeam(0)
    \/ AddAgent(MaxAgents, {Teammate, Lead}, 0)
    \/ AddTask(MaxStoreTasks, 0)
    \/ ClaimTask(AgentIds, 0)
    \/ ValidateInvariants

SpecRoles == Init /\ [][NextRoles]_vars

(* A board of tasks completed through the tool, with and without a result text *)
NextBoard ==
    \/ CreateTeam(0)
    \/ AddTask(MaxStoreTasks, 0)
    \/ \E c \in Sessions : TeamCompleteTask(c, MaxIoFailures)

SpecBoard == Init /\ [][NextBoard]_vars

----------------------------------------------------------------------------
(* Properties of the task board *)

TaskById(tasks, id) == tasks[FirstIndex(tasks, LAMBDA t : t.id = id)]

HasTask(tasks, id) == FirstIndex(tasks, LAMBDA t : t.id = id) # 0

Returned(op) == last.op = op /\ last.res.kind = "Ok"

(* C1: a task that add_task has just created is Pending exactly when it has no  *)
(* dependencies or each of them names a Completed task, and Blocked otherwise;  *)
(* it is the task stored last on the board.                                     *)
C1_InitialStatus ==
    Returned("add_task") =>
        LET new == last.res.val
            deps == new.depends_on
            done == \A k \in DOMAIN deps :
                        /\ HasTask(Tasks, deps[k])
                        /\ TaskById(Tasks, deps[k]).status = Completed
        IN  /\ Tasks[Len(Tasks)] = new
            /\ \A k \in DOMAIN deps : HasTask(Tasks, deps[k])
            /\ new.status = (IF deps = << >> \/ done THEN Pending ELSE Blocked)

(* a task was created Blocked on two dependencies, one Completed and one not *)
C1_Witness ==
    /\ Returned("add_task")
    /\ last.res.val.status = Blocked
    /\ Len(last.res.val.depends_on) = 2
    /\ \E k \in DOMAIN last.res.val.depends_on :
           TaskById(Tasks, last.res.val.depends_on[k]).status = Completed

(* C2: a step in which complete_task(T) returns Ok leaves T Completed, makes     *)
(* Pending every other task that was Blocked with a non-empty depends_on whose   *)
(* tasks are all Completed once T is, and leaves every other task's status (and  *)
(* so every Blocked task with an unmet dependency) as it was.                    *)
C2_Step ==
    (last'.op = "complete_task" /\ last'.res.kind = "Ok" /\ mem # None) =>
        LET T == last'.res.val.id
            pre == mem[1].tasks
            post == mem'[1].tasks
            DoneWithT(id) == \E i \in DOMAIN pre :
                                 pre[i].id = id /\ (id = T \/ pre[i].status = Completed)
        IN  /\ mem' # None
            /\ DOMAIN post = DOMAIN pre
            /\ \A k \in DOMAIN pre :
                   /\ post[k].id = pre[k].id
                   /\ post[k].status =
                        (IF pre[k].id = T THEN Completed
                         ELSE IF /\ pre[k].status = Blocked
                                 /\ pre[k].depends_on # << >>
                                 /\ \A j \in DOMAIN pre[k].depends_on :
                                        DoneWithT(pre[k].depends_on[j])
                         THEN Pending
                         ELSE pre[k].status)

C2_CascadeUnblock == [][C2_Step]_vars

(* completing a task that was in progress has promoted a task that waited for it *)
(* and for another task                                                          *)
C2_Witness ==
    /\ Returned("complete_task")
    /\ last.before # None
    /\ last.before[1].status = InProgress
    /\ \E k \in DOMAIN Tasks :
           /\ Tasks[k].status = Pending
           /\ Len(Tasks[k].depends_on) = 2
           /\ \E j \in DOMAIN Tasks[k].depends_on : Tasks[k].depends_on[j] = last.res.val.id

(* C3: a claim_task aimed at a task that is Blocked or Completed returns         *)
(* InvalidOperation, whatever assignee it is given.                              *)
C3_ClaimRejected ==
    (/\ last.op = "claim_task"
     /\ last.before # None
     /\ last.before[1].status \in {Blocked, Completed})
        => /\ last.res.kind = "InvalidOperation"
           /\ TaskById(Tasks, last.before[1].id) = last.before[1]

(* a team member's claim of a Blocked task was turned down *)
C3_Witness ==
    /\ last.op = "claim_task"
    /\ last.before # None
    /\ last.before[1].status = Blocked
    /\ last.res.msg = <<"Cannot claim a blocked task">>

IsMember(ref) == \E a \in Range(Agents) : a.id = ref \/ a.name = ref

(* a claim_task by a team member aimed at a task that is Pending or InProgress *)
ClaimableClaimed ==
    /\ last.op = "claim_task"
    /\ last.before # None
    /\ last.before[1].status \in {Pending, InProgress}
    /\ IsMember(last.arg[1])

(* C4 as stated: such a claim always returns Ok, with the task InProgress and    *)
(* assigned to the given assignee.                                               *)
C4_AlwaysSucceeds ==
    ClaimableClaimed =>
        /\ last.res.kind = "Ok"
        /\ TaskById(Tasks, last.before[1].id).status = InProgress
        /\ TaskById(Tasks, last.before[1].id).assignee_id = last.arg

(* C4, amended: such a claim leaves the task InProgress and assigned to the      *)
(* given assignee in memory, whoever held it before; it returns that task, or    *)
(* the I/O error of a snapshot write that failed.                                *)
C4_ClaimTakes ==
    ClaimableClaimed =>
        LET now == TaskById(Tasks, last.before[1].id)
        IN  /\ now = [last.before[1] EXCEPT !.status = InProgress, !.assignee_id = last.arg]
            /\ last.res.kind \in {"Ok", "Io"}
            /\ last.res.kind = "Ok" => last.res.val = now
            /\ last.res.kind = "Io" => ioFails > 0

(* a task in progress was re-claimed, by name, by another agent than its assignee *)
C4_Witness ==
    /\ ClaimableClaimed
    /\ last.res.kind = "Ok"
    /\ last.before[1].status = InProgress
    /\ \E a, b \in Range(Agents) :
           /\ a.id # b.id
           /\ last.before[1].assignee_id = Some(a.id)
           /\ last.arg = Some(b.name)
           /\ TaskById(Tasks, last.before[1].id).assignee_id = Some(b.name)

(* C5: while an aggregate stays in memory, a task that is Completed stays on the *)
(* board and stays Completed, whatever operation runs.                           *)
C5_Step ==
    (mem # None /\ mem' # None) =>
        \A k \in DOMAIN mem[1].tasks :
            mem[1].tasks[k].status = Completed =>
                /\ k \in DOMAIN mem'[1].tasks
                /\ mem'[1].tasks[k].id = mem[1].tasks[k].id
                /\ mem'[1].tasks[k].status = Completed

C5_CompletedOnlyGrows == [][C5_Step]_vars

(* a Completed task has been claimed again, and completed again *)
C5_Witness ==
    /\ last.op \in {"claim_task", "complete_task"}
    /\ last.before # None
    /\ last.before[1].status = Completed
    /\ TaskById(Tasks, last.before[1].id).status = Completed

(* C6: add_agent, add_task, claim_task, send_message, update_agent_status and    *)
(* bind_lead_thread, returning Ok or an error, leave every Blocked task on the   *)
(* board and Blocked.                                                            *)
C6_Step ==
    (/\ mem # None
     /\ last'.op \in {"add_agent", "add_task", "claim_task", "send_message",
                      "update_agent_status", "bind_lead_thread"})
        => /\ mem' # None
           /\ \A k \in DOMAIN mem[1].tasks :
                  mem[1].tasks[k].status = Blocked =>
                      /\ k \in DOMAIN mem'[1].tasks
                      /\ mem'[1].tasks[k] = mem[1].tasks[k]

----------------------------------------------------------------------------
(* Properties of the tool handlers *)

(* the file that holds the snapshot of an aggregate *)
SnapshotOf(state) == sanitize_team_name(state.team).val

CleanupReturned == last.op = "team_cleanup" /\ last.before # None

(* the caller of the cleanup is the session the lead is bound to, or the lead   *)
(* is bound to none                                                             *)
CalledByLead ==
    LET team == last.before[1]
        lead == team.agents[FirstIndex(team.agents, LAMBDA a : a.id = team.lead_id)]
    IN  lead.thread_id = None \/ lead.thread_id = Some(last.arg[1].session)

CleanupRefusal(active) ==
    team_err(InvalidOperation(<<"Cannot cleanup team while teammates are active">> \o active))

InPlace == mem = last.before /\ SnapshotOf(last.before[1]) \in DOMAIN disk

(* C7 as stated: whoever asks, cleanup of an aggregate with a teammate that is  *)
(* not Shutdown is refused with the error that names each of them and leaves    *)
(* the aggregate and its snapshot in place, and cleanup of an aggregate with    *)
(* no such teammate succeeds.                                                   *)
C7_CleanupGated ==
    CleanupReturned =>
        LET active == ActiveTeammates(last.before[1].agents) IN
        IF active # << >>
        THEN last.res = CleanupRefusal(active) /\ InPlace
        ELSE last.res.kind = "Ok" /\ mem = None /\ disk = NoFiles

(* C7, amended: for a cleanup asked by the lead's session, a teammate that is   *)
(* not Shutdown makes it fail with the error that names each such teammate,     *)
(* aggregate and snapshot in place; with none it removes both, unless removing  *)
(* the snapshot file fails, which is the error returned with both in place.     *)
(* Asked by another session it fails naming the lead-only rule, both in place.  *)
C7_CleanupGatedForLead ==
    CleanupReturned =>
        LET active == ActiveTeammates(last.before[1].agents) IN
        IF ~CalledByLead
        THEN /\ last.res = RespondToModel(<<"Cleanup must be initiated by the team lead session">>)
             /\ InPlace
        ELSE IF active # << >>
        THEN last.res = CleanupRefusal(active) /\ InPlace
        ELSE \/ last.res.kind = "Ok" /\ mem = None /\ disk = NoFiles
             \/ last.res = team_err(IoError) /\ InPlace /\ ioFails > 0

(* the lead's cleanup was refused naming two teammates *)
C7_Witness ==
    /\ CleanupReturned
    /\ CalledByLead
    /\ Len(ActiveTeammates(last.before[1].agents)) = 2
    /\ last.res.kind = "RespondToModel"

(* C8: a team_cleanup that returned Ok destroyed an aggregate in which every    *)
(* role-Teammate agent was Shutdown, also when other callers of the store ran   *)
(* between its steps.                                                           *)
C8_NeverDestroyedWhileActive ==
    (last.op = "team_cleanup" /\ last.res.kind = "Ok" /\ last.before # None)
        => ActiveTeammates(last.before[1].agents) = << >>

TeamCreateFailed ==
    last.op = "team_create" /\ last.res.kind # "Ok" /\ last.before = None

(* the threads the agent backend spawned for the team_create that returned *)
SpawnedInCall ==
    Range(last.arg[1].frame.spawned_agents) \cup Range(last.arg[1].frame.tid)

(* C9: a team_create for a team that did not exist, whichever of its steps      *)
(* returned the error, leaves no aggregate in memory, no snapshot on disk, and  *)
(* no thread it spawned without a shutdown request.                             *)
C9_CreateIsTransactional ==
    TeamCreateFailed =>
        /\ mem = None
        /\ disk = NoFiles
        /\ SpawnedInCall \subseteq asked

SpawnFailed ==
    /\ last.op = "team_create"
    /\ last.res.kind = "RespondToModel"
    /\ Len(last.res.msg) = 4
    /\ last.res.msg[1] = "failed to spawn agent"

(* C10: a team_create that returned the error of a failed spawn has asked the   *)
(* backend to shut down each thread it spawned before, has left no aggregate in *)
(* memory and no snapshot on disk, and names the teammate whose spawn failed.   *)
C10_SpawnFailureRollsBack ==
    SpawnFailed =>
        LET frame == last.arg[1].frame IN
        /\ Range(frame.spawned_agents) \subseteq asked
        /\ mem = None
        /\ disk = NoFiles
        /\ last.res.msg[2] = frame.agents[frame.idx + 1].name

(* the session the lead of the aggregate is bound to, None if to none *)
BoundLead(state) ==
    state.agents[FirstIndex(state.agents, LAMBDA a : a.id = state.lead_id)].thread_id

(* C11: a team_cleanup asked by a session other than the one the lead is bound  *)
(* to is rejected with aggregate and snapshot as they were, and a team_cleanup  *)
(* of an aggregate with a bound lead that returned Ok was asked by the lead's   *)
(* session.                                                                     *)
C11_LeadOnlyCleanup ==
    (CleanupReturned /\ BoundLead(last.before[1]) # None) =>
        LET caller == last.arg[1].session IN
        /\ BoundLead(last.before[1]) # Some(caller) =>
               /\ last.res.kind = "RespondToModel"
               /\ mem = last.before
               /\ SnapshotOf(last.before[1]) \in DOMAIN disk
               /\ last.arg[1].frame.pc = "idle"
        /\ last.res.kind = "Ok" => BoundLead(last.before[1]) = Some(caller)

(* a session that is not the lead's asked for the cleanup of a team whose       *)
(* teammates are all Shutdown, and was rejected                                 *)
C11_Witness ==
    /\ CleanupReturned
    /\ BoundLead(last.before[1]) \notin {None, Some(last.arg[1].session)}
    /\ Len(last.before[1].agents) > 1
    /\ ActiveTeammates(last.before[1].agents) = << >>
    /\ last.res.kind = "RespondToModel"
    /\ mem = last.before

ShutdownReturned == last.op = "team_shutdown_agent" /\ last.before # None

(* the agent a team_shutdown_agent call was aimed at, as find_agent gives it *)
ShutdownTarget == find_agent(last.before, last.arg[1].frame.agent_id)

(* C12: a team_shutdown_agent aimed at the lead is refused and leaves the       *)
(* aggregate and the backend's requests as they were; aimed at another agent of *)
(* the team it leaves that agent Shutdown in the aggregate, whatever the        *)
(* backend's shutdown reported.                                                 *)
C12_ShutdownAgent ==
    (ShutdownReturned /\ ShutdownTarget.kind = "Ok") =>
        LET target == ShutdownTarget.val IN
        IF target.id = last.before[1].lead_id
        THEN /\ last.res = RespondToModel(<<"Cannot shut down the lead agent">>)
             /\ mem = last.before
             /\ target.thread_id # None => target.thread_id[1] \notin asked
        ELSE /\ mem # None
             /\ \A i \in DOMAIN last.before[1].agents :
                    mem[1].agents[i] =
                        IF last.before[1].agents[i].id = target.id
                        THEN [last.before[1].agents[i] EXCEPT !.status = Shutdown]
                        ELSE last.before[1].agents[i]
             /\ target.thread_id # None => target.thread_id[1] \in asked

(* a teammate with a thread was shut down by name, and the backend's shutdown   *)
(* failed: the thread still runs and the agent is Shutdown                      *)
C12_Witness ==
    /\ ShutdownReturned
    /\ ShutdownTarget.kind = "Ok"
    /\ ShutdownTarget.val.role = Teammate
    /\ ShutdownTarget.val.name = last.arg[1].frame.agent_id
    /\ ShutdownTarget.val.thread_id # None
    /\ ShutdownTarget.val.thread_id[1] \in running
    /\ last.res.kind = "Ok"

(* a team_create that returned was called with a name create_team accepts and  *)
(* found the team of that name resident                                         *)
JoinReturned ==
    /\ last.op = "team_create"
    /\ last.before # None
    /\ sanitize_team_name(last.arg[1].frame.team_name).kind = "Ok"
    /\ sanitize_team_name(last.arg[1].frame.team_name).val = last.before[1].team

(* C13: a team_create with a name that create_team accepts, whose team is the   *)
(* one resident, returns that aggregate and leaves it as it was: no agent is    *)
(* registered and no thread spawned.                                            *)
C13_JoinReturnsExisting ==
    JoinReturned =>
        /\ last.res = Ok(last.before[1])
        /\ mem = last.before
        /\ last.arg[1].frame.spawned_agents = << >>
        /\ last.arg[1].frame.tid = None

----------------------------------------------------------------------------
(* Properties of the store *)

C14_Step ==
    (last'.op = "create_team" /\ last' # last) =>
        LET safe == sanitize_team_name(last'.arg[1].team_name) IN
        /\ safe.kind # "Ok" =>
               /\ last'.res = safe
               /\ last'.res.kind = "InvalidOperation"
               /\ mem' = mem /\ disk' = disk
        /\ (safe.kind = "Ok" /\ mem # None) =>
               /\ last'.res = InvalidOperation(<<"Team already exists">>)
               /\ mem' = mem /\ disk' = disk

C15_NewTeam ==
    Returned("create_team") =>
        LET state == last.res.val IN
        /\ mem = Some(state)
        /\ Len(state.agents) = 1
        /\ state.agents[1].name = last.arg[1].lead_name
        /\ state.agents[1].role = Lead
        /\ state.agents[1].status = Active
        /\ state.agents[1].id = state.lead_id
        /\ state.tasks = << >>
        /\ state.messages = << >>

(* a team was created again after the cleanup of an earlier one *)
C15_Witness ==
    /\ Returned("create_team")
    /\ last.res.val.team = <<"p", "_">>
    /\ SnapshotOf(last.res.val) \in DOMAIN disk
    /\ ioFails > 0

(* the call of team_complete_task that returned the completed task *)
CompletedByTool ==
    /\ last.op = "team_complete_task"
    /\ last.res.kind = "Ok"

(* C16: after team_complete_task returned the task, called with a result text,  *)
(* the task on the board carries that text, the task returned carries it, and   *)
(* the task is Completed, whether or not it was Completed before.               *)
C16_ResultStored ==
    (CompletedByTool /\ last.arg[1].frame.result # None) =>
        /\ last.res.val.status = Completed
        /\ last.res.val.result = last.arg[1].frame.result
        /\ TaskById(Tasks, last.arg[1].frame.task_id).result = last.arg[1].frame.result

(* the snapshots in the directory *)
Snapshots == {disk[f] : f \in DOMAIN disk}

(* C17: get_team and list_tasks, called on a store with nothing in memory and a *)
(* snapshot in its directory, adopt a snapshot of the directory as the          *)
(* aggregate in memory, and return it, or its tasks.                            *)
C17_LoadOnAccess ==
    (/\ last.op \in {"get_team", "list_tasks"}
     /\ last.before = None
     /\ Snapshots # {})
        => /\ last.res.kind = "Ok"
           /\ mem # None
           /\ mem[1] \in Snapshots
           /\ last.op = "get_team" => last.res.val = mem[1]
           /\ last.op = "list_tasks" => last.res.val = mem[1].tasks

(* a second instance listed the task of a team of two that the first left *)
C17_Witness ==
    /\ last.op = "list_tasks"
    /\ last.before = None
    /\ last.res.kind = "Ok"
    /\ Len(last.res.val) > 0
    /\ Len(Agents) > 1

(* C18: with no failure of the file system so far, when a mutating operation    *)
(* has returned Ok and left an aggregate in memory, the file named after the    *)
(* sanitized team name holds that whole aggregate.                              *)
C18_SnapshotIsAggregate ==
    (/\ ioFails = 0
     /\ last.op \in {"create_team", "add_agent", "bind_lead_thread", "add_task",
                     "claim_task", "complete_task", "send_message",
                     "update_agent_status"}
     /\ last.res.kind = "Ok")
        => /\ mem # None
           /\ SnapshotOf(mem[1]) \in DOMAIN disk
           /\ disk[SnapshotOf(mem[1])] = mem[1]

(* a message was sent in a team with a task; the snapshot holds all of it *)
C18_Witness ==
    /\ ioFails = 0
    /\ Returned("send_message")
    /\ Len(Tasks) > 0
    /\ Len(Messages) > 0
    /\ disk[SnapshotOf(mem[1])] = mem[1]

(* C19: after cleanup returned Ok nothing is in memory, the next get_team       *)
(* fails, and the directory holds no snapshot.                                  *)
C19_CleanupRemoves ==
    Returned("cleanup") =>
        /\ mem = None
        /\ \A m \in try_load_from_disk(mem, disk) : get_team(m).kind # "Ok"
        /\ Snapshots = {}

(* add_task returned, called on a team with a list of dependencies of which one *)
(* is the id of no task                                                         *)
UnknownDependency ==
    /\ last.op = "add_task"
    /\ last.before # None
    /\ \E k \in DOMAIN last.arg[1] : ~HasTask(last.before[1].tasks, last.arg[1][k])

Sound(state) ==
    /\ Cardinality({i \in DOMAIN state.agents : state.agents[i].role = Lead}) = 1
    /\ \A i \in DOMAIN state.agents :
           state.agents[i].role = Lead => state.agents[i].id = state.lead_id
    /\ \A i \in DOMAIN state.tasks : \A k \in DOMAIN state.tasks[i].depends_on :
           HasTask(state.tasks, state.tasks[i].depends_on[k])

(* C22: validate_invariants returns Ok exactly when the aggregate in memory has *)
(* one agent of role Lead, whose id is lead_id, and every dependency of every   *)
(* task is a task's id; otherwise it returns InvalidOperation; the aggregate is *)
(* as it was before the call.                                                   *)
C22_ValidateInvariants ==
    last.op = "validate_invariants" =>
        /\ last.res.kind = "Ok" <=> (mem # None /\ Sound(mem[1]))
        /\ last.res.kind \in {"Ok", "InvalidOperation"}
        /\ mem = last.before

(* an aggregate with two leads, the first of which is lead_id, was turned down *)
C22_Witness ==
    /\ last.op = "validate_invariants"
    /\ last.res = InvalidOperation(<<"expected 1 lead, found", 2>>)
    /\ mem[1].agents[1].id = mem[1].lead_id

(* the characters a sanitized name is made of *)
SafeChars == AsciiAlnum \cup {"-", "_"}

(* C23: sanitize_team_name rejects the empty name, "." and ".."; any other name *)
(* it accepts, and its output has as many characters as the name, each one the  *)
(* name's character at that place if that is an ASCII letter or digit, '-' or   *)
(* '_', and '_' if it is not.                                                   *)
C23_Sanitize ==
    last.op = "sanitize_team_name" =>
        LET name == last.arg[1] IN
        IF name \in {<< >>, <<".">>, <<".", ".">>}
        THEN last.res.kind = "InvalidOperation"
        ELSE /\ last.res.kind = "Ok"
             /\ Len(last.res.val) = Len(name)
             /\ \A i \in 1..Len(name) :
                    /\ last.res.val[i] \in SafeChars
                    /\ name[i] \in SafeChars => last.res.val[i] = name[i]
                    /\ name[i] \notin SafeChars => last.res.val[i] = "_"

(* "../" was made "___" *)
C23_Witness ==
    /\ last.op = "sanitize_team_name"
    /\ last.arg = Some(<<".", ".", "/">>)
    /\ last.res = Ok(<<"_", "_", "_">>)

(* C24: list_messages on a team returns all the messages in the order they were *)
(* sent if no limit is given or the limit is at least their number, and         *)
(* otherwise the last `limit` of them in that order; after send_message every   *)
(* message recorded before the call is where and as it was.                     *)
C24_MessageLog ==
    /\ (last.op = "list_messages" /\ mem # None) =>
           LET limit == last.arg[1]
               listed == last.res.val
           IN
           /\ last.res.kind = "Ok"
           /\ (limit = None \/ limit[1] >= Len(Messages)) => listed = Messages
           /\ (limit # None /\ limit[1] < Len(Messages)) =>
                  /\ Len(listed) = limit[1]
                  /\ \A k \in 1..limit[1] :
                         listed[k] = Messages[Len(Messages) - limit[1] + k]
    /\ (last.op = "send_message" /\ last.before # None) =>
           LET old == last.before[1].messages IN
           /\ Len(Messages) = Len(old) + 1
           /\ SubSeq(Messages, 1, Len(old)) = old

(* the last two of three messages were listed *)
C24_Witness ==
    /\ Returned("list_messages")
    /\ last.arg[1] = Some(2)
    /\ Len(Messages) = 3
    /\ last.res.val = <<Messages[2], Messages[3]>>

----------------------------------------------------------------------------
(* Properties of callers that run at the same time *)

Settled == \A c \in Sessions : calls[c].pc = "st_done"

(* the frame of the call that was granted the lock as the n-th of its round *)
Granted(n) == calls[CHOOSE c \in Sessions : calls[c].idx = n]

(* the aggregate an operation leaves when it runs alone on aggregate m *)
Alone(f, m) == Apply(f, m, NoFiles, TRUE).mem

(* two calls of claim_task by team members for one task, Pending when the first *)
(* was granted the lock                                                         *)
TwoClaims ==
    /\ Settled
    /\ Granted(1).op = "claim_task"
    /\ Granted(2).op = "claim_task"
    /\ Granted(1).task_id = Granted(2).task_id
    /\ TaskById(Granted(1).before[1].tasks, Granted(1).task_id).status = Pending

(* C25 as stated, for the two claims: both return Ok and the task is assigned   *)
(* to the assignee of the call that was granted the lock last.                  *)
C25_BothSucceed ==
    TwoClaims =>
        /\ Granted(1).res[1].kind = "Ok"
        /\ Granted(2).res[1].kind = "Ok"
        /\ TaskById(Tasks, Granted(2).task_id).assignee_id = Some(Granted(2).agent_id)

(* C25, amended: when two callers' operations have returned, the second to be   *)
(* granted the lock found the aggregate the first leaves when run alone, and    *)
(* the aggregate in memory is the one the second leaves when run alone on that; *)
(* each returned what it returns when run alone, or the I/O error of its        *)
(* snapshot write.  Two claims of one Pending task each return Ok or that I/O   *)
(* error, and the task is InProgress, assigned to the assignee of the later.    *)
C25_Serialized ==
    Settled =>
        LET a == Granted(1)
            b == Granted(2)
        IN  /\ b.before = Alone(a, a.before)
            /\ mem = Alone(b, b.before)
            /\ \A f \in {a, b} :
                   /\ f.res[1].kind # "Io" => f.res[1] = Apply(f, f.before, NoFiles, TRUE).res
                   /\ f.res[1].kind = "Io" => ioFails > 0
            /\ TwoClaims =>
                   /\ a.res[1].kind \in {"Ok", "Io"}
                   /\ b.res[1].kind \in {"Ok", "Io"}
                   /\ TaskById(Tasks, b.task_id).status = InProgress
                   /\ TaskById(Tasks, b.task_id).assignee_id = Some(b.agent_id)

(* two callers claimed one Pending task for different agents and both got Ok *)
C25_Witness ==
    /\ TwoClaims
    /\ Granted(1).res[1].kind = "Ok"
    /\ Granted(2).res[1].kind = "Ok"
    /\ Granted(1).agent_id # Granted(2).agent_id
    /\ TaskById(Tasks, Granted(2).task_id).assignee_id = Some(Granted(2).agent_id)

(* C27: in every state a reader can observe, every Blocked task has a           *)
(* dependency that is not Completed.                                            *)
C27_BlockedHasOpenDependency ==
    Observable =>
        \A t \in Range(Tasks) :
            t.status = Blocked =>
                \E k \in DOMAIN t.depends_on :
                    ~(/\ HasTask(Tasks, t.depends_on[k])
                      /\ TaskById(Tasks, t.depends_on[k]).status = Completed)

(* a caller's complete_task returned: the task is Completed, its dependent was  *)
(* promoted to Pending, and no writer holds the lock                            *)
C27_Witness ==
    /\ Observable
    /\ Returned("complete_task")
    /\ \E t \in Range(Tasks) :
           /\ t.status = Pending
           /\ t.depends_on = <<last.res.val.id>>
    /\ \E c \in Sessions : calls[c].pc = "st_wait"

(* C26: when try_load_from_disk has taken the write lock with a snapshot it     *)
(* read, an aggregate that was in memory at that moment is still the one in     *)
(* memory, and with nothing in memory the snapshot is.                          *)
C26_LoadKeepsInstalled ==
    last.op = "try_load_from_disk" =>
        /\ last.before # None => mem = last.before
        /\ last.before = None => mem = Some(last.res.val)

(* a load lost the race to a create_team: the team created, not the snapshot    *)
(* read, is in memory                                                           *)
C26_Witness ==
    /\ last.op = "try_load_from_disk"
    /\ last.before # None
    /\ last.before[1] # last.res.val
    /\ mem = last.before

----------------------------------------------------------------------------
(* Properties of the aggregate *)

(* C28: after every step of the store each dependency of each task of the       *)
(* aggregate in memory is the id of one of its tasks; and a step that leaves    *)
(* the aggregate in memory, other than the creation of a new one, keeps every   *)
(* task in its place with its id and its depends_on.                            *)
C28_Step ==
    /\ mem' # None =>
           \A t \in Range(mem'[1].tasks) : \A k \in DOMAIN t.depends_on :
               HasTask(mem'[1].tasks, t.depends_on[k])
    /\ (mem # None /\ mem' # None /\ last'.op # "create_team") =>
           \A i \in DOMAIN Tasks :
               /\ i \in DOMAIN mem'[1].tasks
               /\ mem'[1].tasks[i].id = Tasks[i].id
               /\ mem'[1].tasks[i].depends_on = Tasks[i].depends_on

C28_DependenciesExist == [][C28_Step]_vars

(* a task was completed while another task depends on it *)
C28_Witness ==
    /\ Returned("complete_task")
    /\ Len(Tasks) = 2
    /\ Tasks[2].depends_on = <<Tasks[1].id>>
    /\ last.res.val.id = Tasks[1].id

(* C29: the aggregate in memory has exactly one agent of role Lead, and lead_id *)
(* is that agent's id.                                                          *)
C29_OneLead ==
    mem # None =>
        /\ Cardinality(leads(Agents)) = 1
        /\ \A i \in leads(Agents) : Agents[i].id = mem[1].lead_id

(* C30: complete_task on a task of the board, whatever its status, leaves it    *)
(* Completed in memory and returns it, Completed; it fails only with the I/O    *)
(* error of a snapshot write that failed.                                       *)
C30_CompleteFromAnyStatus ==
    (last.op = "complete_task" /\ last.before # None) =>
        /\ last.before[1].status \in {Pending, InProgress, Blocked, Completed}
        /\ TaskById(Tasks, last.before[1].id).status = Completed
        /\ last.res.kind \in {"Ok", "Io"}
        /\ last.res.kind = "Ok" =>
               last.res.val = [last.before[1] EXCEPT !.status = Completed]
        /\ last.res.kind = "Io" => ioFails > 0

(* a Blocked task was completed while the task it depends on is not Completed *)
C30_Witness ==
    /\ Returned("complete_task")
    /\ last.before[1].status = Blocked
    /\ \E k \in DOMAIN last.before[1].depends_on :
           TaskById(Tasks, last.before[1].depends_on[k]).status # Completed

WriteFailed(op) == last.op = op /\ last.res.kind = "Io"

Rejected == last.res.kind = "InvalidOperation"

C32_Step == Rejected' => mem' = mem /\ disk' = disk

C33_CreatedOnce ==
    Returned("create_team") => ~last.arg[1].existed

(* sanitizing the name gives the name back *)
Sanitized(name) == sanitize_team_name(name) = Ok(name)

(* C34: the name create_team gives the team is the sanitized form of the name   *)
(* it was called with, and sanitizing it again succeeds and returns it          *)
(* unchanged; so the directory holds no file but the one of that name, which    *)
(* create_team wrote and every later persist rewrote, and a cleanup of the      *)
(* aggregate that returns Ok leaves no file behind.                             *)
C34_OnePath ==
    /\ mem # None =>
          /\ Sanitized(mem[1].team)
          /\ DOMAIN disk \subseteq {mem[1].team}
    /\ Returned("create_team") =>
          /\ Ok(mem[1].team) = sanitize_team_name(last.arg[1].team_name)
          /\ DOMAIN disk = {mem[1].team}
    /\ (Returned("add_task") \/ Returned("complete_task")) =>
          DOMAIN disk = {mem[1].team}
    /\ Returned("cleanup") => DOMAIN disk = {}

(* a cleanup removed the file that create_team wrote and add_task rewrote under *)
(* a name with a replaced character                                             *)
C34_Witness ==
    /\ Returned("cleanup")
    /\ last.before # None
    /\ last.before[1].team = <<"p", "_">>
    /\ last.before[1].tasks # << >>
    /\ disk = NoFiles

(* the causes of a refusal: no team in memory, no task of the id given, no      *)
(* agent of the id or name given, a team already in memory                      *)
AbsentTeam ==
    /\ last.op \in {"add_agent", "bind_lead_thread", "add_task", "claim_task",
                    "complete_task", "send_message", "update_agent_status"}
    /\ mem = None

AbsentTask == last.op = "complete_task" /\ mem # None /\ last.before = None

AbsentAgent == last.op = "update_agent_status" /\ mem # None /\ last.before = None

DuplicateTeam ==
    /\ last.op = "create_team"
    /\ last.before # None
    /\ sanitize_team_name(last.arg[1].team_name).kind = "Ok"

C36_OpenTaskHasDoneDependencies ==
    \A t \in Range(Tasks) :
        t.status \in {Pending, InProgress} =>
            \A k \in DOMAIN t.depends_on :
                /\ HasTask(Tasks, t.depends_on[k])
                /\ TaskById(Tasks, t.depends_on[k]).status = Completed

(* a task with two dependencies, promoted when the second of them was           *)
(* completed, has been claimed                                                  *)
C36_Witness ==
    /\ Returned("claim_task")
    /\ Len(last.before[1].depends_on) = 2
    /\ TaskById(Tasks, last.before[1].id).status = InProgress
    /\ \A k \in DOMAIN last.before[1].depends_on :
           TaskById(Tasks, last.before[1].depends_on[k]).status = Completed

(* C37: each dependency of each task of the board is the id of a task that      *)
(* stands before it on the board, where add_task put it earlier; so no chain of *)
(* dependencies leads from a task back to itself.                               *)
C37_DependenciesAddedBefore ==
    \A i \in DOMAIN Tasks :
        \A k \in DOMAIN Tasks[i].depends_on :
            /\ Tasks[i].depends_on[k] # Tasks[i].id
            /\ \E j \in 1..(i - 1) : Tasks[j].id = Tasks[i].depends_on[k]

(* a chain of three tasks, each depending on the one added before it *)
C37_Witness ==
    /\ Returned("add_task")
    /\ Len(Tasks) = 3
    /\ Tasks[2].depends_on = <<Tasks[1].id>>
    /\ Tasks[3].depends_on = <<Tasks[2].id>>

HasStatus(task_id, status) ==
    HasTask(Tasks, task_id) /\ TaskById(Tasks, task_id).status = status

(* C38 as stated: when the Pending and InProgress tasks are completed sooner or *)
(* later, every Blocked task becomes Pending at some time.                      *)
C38_BlockedBecomesPending ==
    \A task_id \in LiveTaskIds :
        HasStatus(task_id, Blocked) ~> HasStatus(task_id, Pending)

(* C38, amended: under the same fairness every task of the board, Blocked ones  *)
(* included, is Completed in the end, so no task stays Blocked; a Blocked task  *)
(* gets there through Pending, or directly when complete_task is called for it  *)
(* while it is Blocked.                                                         *)
C38_NoTaskStaysBlocked ==
    \A task_id \in LiveTaskIds :
        HasTask(Tasks, task_id) ~> HasStatus(task_id, Completed)

(* the second of the two dependencies of a Blocked task has been completed and  *)
(* the task is Pending                                                          *)
C38_Witness ==
    /\ Returned("complete_task")
    /\ \E t \in Range(Tasks) :
           /\ t.status = Pending
           /\ Len(t.depends_on) = 2
           /\ last.res.val.id \in Range(t.depends_on)

(* C39: the snapshot that try_load_from_disk installs in an empty memory is the *)
(* snapshot of a team whose file is in the directory: a team that a cleanup has *)
(* removed since the snapshot was read is not brought back into memory.         *)
C39_NoResurrection ==
    (last.op = "try_load_from_disk" /\ last.before = None)
        => (mem # None /\ SnapshotOf(mem[1]) \in DOMAIN disk)

----------------------------------------------------------------------------
(* Properties of the plan approvals *)

(* C40: no two submissions of PlanApprovalState have the same plan id, and the  *)
(* submission that an approve_plan or reject_plan has just changed is the one   *)
(* at its own place in the list that submit_plan returned with that id.         *)
C40_UniquePlanIds ==
    /\ \A i, j \in DOMAIN submissions :
           i # j => submissions[i].id # submissions[j].id
    /\ (last.op \in {"approve_plan", "reject_plan"} /\ last.res.kind = "Ok") =>
           \A i \in DOMAIN submissions :
               submissions[i].id = last.arg[1] => submissions[i] = last.res.val

====
